---- MODULE Spec2Model ----
(***************************************************************************)
(* Request gateway, request transformers and response normalizer of        *)
(* opencode-antigravity-auth.                                              *)
(*                                                                         *)
(* transformGeminiRequest (src/plugin/transform/gemini.ts) and             *)
(* normalizeGoogleSearchTool are modelled from their code.  The signature  *)
(* cache (src/plugin/cache) and transformClaudeRequest                     *)
(* (src/plugin/transform/claude.ts) are imported by the sources but their  *)
(* files are not part of the source tree at hand; they are modelled from   *)
(* sections 3 and 4.3 of the specification.                                *)
(*                                                                         *)
(* prepareAntigravityRequest and transformAntigravityResponse              *)
(* (src/plugin/request.ts) are modelled from their code.  The helpers they *)
(* import from ./request-helpers (parseGeminiApiBody,                      *)
(* rewriteGeminiPreviewAccessError, extractUsageMetadata,                  *)
(* extractUsageFromSsePayload, generateRequestId, getSessionId) and the    *)
(* values of ../constants are not part of the source tree either; they are *)
(* modelled from section 4.1 of the specification.                         *)
(*                                                                         *)
(* SpecFlights has several calls in flight at once, their transforms       *)
(* interleaved block by block over the shared cache (section 5 of the      *)
(* specification); the cache write is the specification's key-level upsert.*)
(*                                                                         *)
(* JavaScript values:                                                      *)
(*   - a string-valued field that is missing holds Undefined;              *)
(*   - an object- or array-valued field that is missing holds None (<<>>), *)
(*     a present one holds Some(v) = <<v>>;                                *)
(*   - objects are records.  An object reachable from both the caller's    *)
(*     payload and the shallow clone is ONE object: an in-place write to   *)
(*     it is applied to both (see transformGeminiRequest).                 *)
(* A part carries either text or a functionCall (the wire format's `data`  *)
(* is a oneof), and `thought` marks text/opaque parts only.                *)
(***************************************************************************)
EXTENDS Integers, Sequences, FiniteSets, TLC

Undefined == "undefined"
None == <<>>
Some(v) == <<v>>
Truthy(s) == s # Undefined /\ s # ""

-----------------------------------------------------------------------------
(* Signatures *)

THOUGHT_SIGNATURE_BYPASS == "skip_thought_signature_validator"
MIN_SIGNATURE_LENGTH == 50

VALID_CLAUDE_SIGNATURE ==
  "RXJRQ0NrZ0lDaEFDR0FJcVFK-claude-abcdefghijklmnopqrstuvwxyzABCD"
OTHER_VALID_SIGNATURE ==
  "Q2xhdWRlU2lnbmF0dXJl-cached-abcdefghijklmnopqrstuvwxyzABCDEFGH"
SHORT_SIGNATURE == "short-invalid-sig"

Sessions == {"s1", "s2"}
Texts == {"t1", "t2"}

\* A signature is authentic iff present, not the sentinel, longer than the
\* threshold (specification 4.3).
IsAuthentic(sig) ==
  /\ Truthy(sig)
  /\ sig # THOUGHT_SIGNATURE_BYPASS
  /\ Len(sig) > MIN_SIGNATURE_LENGTH

-----------------------------------------------------------------------------
(* Signature Continuity Cache: a map keyed by <<sessionId, text>>.          *)

EmptyCache == [k \in {} |-> Undefined]

getCachedSignature(c, sessionId, text) ==
  IF <<sessionId, text>> \in DOMAIN c THEN c[<<sessionId, text>>] ELSE Undefined

\* Faulty variant: the write rebuilds the map from the one entry.
cacheSignatureRebuilding(c, sessionId, text, signature) ==
  [k \in {<<sessionId, text>>} |-> signature]

cacheSignature(c, sessionId, text, signature) ==
  [k \in DOMAIN c \cup {<<sessionId, text>>} |->
     IF k = <<sessionId, text>> THEN signature ELSE c[k]]

-----------------------------------------------------------------------------
(* gemini.ts:85-109, the loop over contents and parts.  The loop never      *)
(* reads content.role.                                                      *)

\* Faulty variant: the text is looked up under every session.
GeminiPartAnySession(c, sessionId, part) ==
  LET signature == part.thoughtSignature
      holders == {s \in Sessions : Truthy(getCachedSignature(c, s, part.text))}
      cached == IF holders = {} THEN Undefined
                ELSE getCachedSignature(c, CHOOSE s \in holders : TRUE, part.text)
  IN IF /\ part.thought = TRUE
        /\ (~Truthy(signature) \/ Len(signature) < MIN_SIGNATURE_LENGTH)
        /\ part.text # Undefined
        /\ Truthy(cached)
     THEN [part EXCEPT !.thoughtSignature = cached]
     ELSE part

GeminiPart(c, sessionId, part) ==
  LET signature == part.thoughtSignature
      cached == getCachedSignature(c, sessionId, part.text)
  IN IF /\ part.thought = TRUE
        /\ (~Truthy(signature) \/ Len(signature) < MIN_SIGNATURE_LENGTH)
        /\ part.text # Undefined
        /\ Truthy(cached)
     THEN [part EXCEPT !.thoughtSignature = cached]
     ELSE part

GeminiContents(c, sessionId, contents) ==
  [i \in 1..Len(contents) |->
     [contents[i] EXCEPT !.parts =
        [j \in 1..Len(contents[i].parts) |->
           GeminiPart(c, sessionId, contents[i].parts[j])]]]

-----------------------------------------------------------------------------
(* Claude-proxy thinking-block rule, specification 4.3.                     *)

\* Faulty variants of the rule: one that never consults the cache, one that
\* accepts any signature a thinking block carries, one that validates the
\* signature of functionCall parts too.
ClaudePartNoCache(c, sessionId, part) ==
  IF part.functionCall # Undefined THEN Some(part)
  ELSE IF part.thought # TRUE THEN Some(part)
  ELSE IF IsAuthentic(part.thoughtSignature) THEN Some(part)
  ELSE None

ClaudePartUnvalidated(c, sessionId, part) ==
  LET cached == getCachedSignature(c, sessionId, part.text)
  IN IF part.functionCall # Undefined THEN Some(part)
     ELSE IF part.thought # TRUE THEN Some(part)
     ELSE IF Truthy(part.thoughtSignature) THEN Some(part)
     ELSE IF part.text # Undefined /\ Truthy(cached)
          THEN Some([part EXCEPT !.thoughtSignature = cached])
          ELSE None

ClaudePartValidatesCalls(c, sessionId, part) ==
  LET cached == getCachedSignature(c, sessionId, part.text)
  IN IF part.thought # TRUE /\ part.functionCall = Undefined THEN Some(part)
     ELSE IF IsAuthentic(part.thoughtSignature) THEN Some(part)
     ELSE IF part.text # Undefined /\ Truthy(cached)
          THEN Some([part EXCEPT !.thoughtSignature = cached])
          ELSE None

ClaudePart(c, sessionId, part) ==
  LET cached == getCachedSignature(c, sessionId, part.text)
  IN IF part.functionCall # Undefined THEN Some(part)
     ELSE IF part.thought # TRUE THEN Some(part)
     ELSE IF IsAuthentic(part.thoughtSignature) THEN Some(part)
     ELSE IF part.text # Undefined /\ Truthy(cached)
          THEN Some([part EXCEPT !.thoughtSignature = cached])
          ELSE None

RECURSIVE ClaudeParts(_, _, _)
ClaudeParts(c, sessionId, parts) ==
  IF parts = <<>> THEN <<>>
  ELSE ClaudePart(c, sessionId, Head(parts))
         \o ClaudeParts(c, sessionId, Tail(parts))

ClaudeContents(c, sessionId, contents) ==
  [i \in 1..Len(contents) |->
     IF contents[i].role = "model"
     THEN [contents[i] EXCEPT !.parts = ClaudeParts(c, sessionId, contents[i].parts)]
     ELSE contents[i]]

-----------------------------------------------------------------------------
(* Payload objects.  st = [req |-> the working copy `requestPayload`,       *)
(* orig |-> the caller's `parsedBody`].  gemini.ts:22 clones the top level  *)
(* only, so a write to a top-level field changes req alone, and a write     *)
(* into a nested object the clone still shares changes req and orig.        *)

EmptyObject == [functionCallingConfig |-> None]

\* gemini.ts:24
DropSafetySettings(st) == [st EXCEPT !.req.safetySettings = Undefined]

\* gemini.ts:30-36, on the toolConfig object
SetValidatedMode(toolConfig) ==
  LET fcc == IF toolConfig.functionCallingConfig = None
             THEN [mode |-> Undefined]
             ELSE toolConfig.functionCallingConfig[1]
  IN [toolConfig EXCEPT
        !.functionCallingConfig = Some([fcc EXCEPT !.mode = "VALIDATED"])]

\* gemini.ts:26-37
EnsureValidatedMode(st) ==
  IF st.req.toolConfig = None
  THEN [st EXCEPT !.req.toolConfig = Some(SetValidatedMode(EmptyObject))]
  ELSE LET tc == Some(SetValidatedMode(st.req.toolConfig[1]))
       IN [st EXCEPT !.req.toolConfig = tc, !.orig.toolConfig = tc]

\* request-helpers: the thinking configuration in the backend's shape, or
\* Undefined when the object requests nothing (specification 4.2, rule 3).
normalizeThinkingConfig(thinkingConfig) ==
  CASE thinkingConfig = "{thinking_budget:1024}" -> "{thinkingBudget:1024}"
    [] thinkingConfig = "{thinkingBudget:1024}" -> "{thinkingBudget:1024}"
    [] OTHER -> Undefined

\* gemini.ts:39-51
NormalizeThinking(st) ==
  LET raw == st.req.generationConfig
      rawThinking == IF raw = None THEN Undefined ELSE raw[1].thinkingConfig
      normalizedThinking == normalizeThinkingConfig(rawThinking)
  IN IF Truthy(normalizedThinking)
     THEN IF raw # None
          THEN LET gc == Some([raw[1] EXCEPT !.thinkingConfig = normalizedThinking])
               IN [st EXCEPT !.req.generationConfig = gc, !.orig.generationConfig = gc]
          ELSE [st EXCEPT !.req.generationConfig =
                  Some([thinkingConfig |-> normalizedThinking, temperature |-> Undefined])]
     ELSE IF Truthy(rawThinking)
          THEN LET gc == Some([raw[1] EXCEPT !.thinkingConfig = Undefined])
               IN [st EXCEPT !.req.generationConfig = gc, !.orig.generationConfig = gc]
          ELSE st

\* gemini.ts:53-56
RenameSystemInstruction(st) ==
  IF st.req.system_instruction # Undefined
  THEN [st EXCEPT !.req.systemInstruction = st.req.system_instruction,
                  !.req.system_instruction = Undefined]
  ELSE st

\* a ?? b
Nullish(a, b) == IF a # Undefined THEN a ELSE b

\* gemini.ts:58-79
ResolveCachedContent(st) ==
  LET extra == st.req.extra_body
      cachedContentFromExtra ==
        IF extra # None
        THEN Nullish(extra[1].cached_content, extra[1].cachedContent)
        ELSE Undefined
      cachedContent ==
        Nullish(st.req.cached_content,
                Nullish(st.req.cachedContent, cachedContentFromExtra))
      \* lines 67-69
      st1 == IF Truthy(cachedContent)
             THEN [st EXCEPT !.req.cachedContent = cachedContent]
             ELSE st
      \* lines 71-72
      st2 == [st1 EXCEPT !.req.cached_content = Undefined,
                         !.req.cachedContent = Undefined]
  IN IF extra = None THEN st2
     ELSE \* lines 73-79: the extra_body object is shared with the caller
          LET eb == [extra[1] EXCEPT !.cached_content = Undefined,
                                     !.cachedContent = Undefined]
              st3 == [st2 EXCEPT !.req.extra_body = Some(eb),
                                 !.orig.extra_body = Some(eb)]
          IN IF eb.other = Undefined
             THEN [st3 EXCEPT !.req.extra_body = None]
             ELSE st3

\* Faulty variant: the model field is left in the request.
RemoveModelSkipped(st) == st

\* gemini.ts:81-83
RemoveModel(st) == [st EXCEPT !.req.model = Undefined]

\* gemini.ts:85-109: the contents array and its parts are shared.
RestoreSignatures(st, c, sessionId) ==
  IF st.req.contents = None THEN st
  ELSE LET contents == Some(GeminiContents(c, sessionId, st.req.contents[1]))
       IN [st EXCEPT !.req.contents = contents, !.orig.contents = contents]

\* gemini.ts:111
StampSessionId(st, sessionId) == [st EXCEPT !.req.sessionId = sessionId]

-----------------------------------------------------------------------------
(* Tools.  A tool is [google_search, googleSearch, urlContext: a string     *)
(* holding the field's object or Undefined; functionDeclarations: None or   *)
(* Some(<<name, ...>>)].                                                    *)

NativeSearchTool ==
  [google_search |-> Undefined, googleSearch |-> "{}", urlContext |-> Undefined,
   functionDeclarations |-> None]

HasGoogleSearchDecl(tool) ==
  /\ tool.functionDeclarations # None
  /\ \E j \in 1..Len(tool.functionDeclarations[1]) :
        tool.functionDeclarations[1][j] = "google_search"

\* gemini.ts:156-167
GoogleSearchRequested(tools) ==
  \E i \in 1..Len(tools) :
     \/ Truthy(tools[i].google_search)
     \/ Truthy(tools[i].googleSearch)
     \/ HasGoogleSearchDecl(tools[i])

\* gemini.ts:193-195, findIndex and splice(index, 1)
RECURSIVE RemoveFirst(_, _)
RemoveFirst(names, name) ==
  IF names = <<>> THEN <<>>
  ELSE IF Head(names) = name THEN Tail(names)
  ELSE <<Head(names)>> \o RemoveFirst(Tail(names), name)

\* gemini.ts:181-203, one iteration of the standard loop, on the tool object
NormalizeTool(tool) ==
  LET a == IF Truthy(tool.google_search) /\ ~Truthy(tool.googleSearch)
           THEN [tool EXCEPT !.googleSearch = tool.google_search,
                             !.google_search = Undefined]
           ELSE tool
      b == IF HasGoogleSearchDecl(a)
           THEN [a EXCEPT !.functionDeclarations =
                            Some(RemoveFirst(a.functionDeclarations[1], "google_search")),
                          !.googleSearch = "{}"]
           ELSE a
  IN IF b.functionDeclarations # None /\ Len(b.functionDeclarations[1]) = 0
     THEN [b EXCEPT !.functionDeclarations = None]
     ELSE b

\* gemini.ts:206-208
KeepsTool(t) == t.functionDeclarations # None \/ Truthy(t.googleSearch)

\* Faulty variant: flash-lite is not treated as a flash model.
IsFlashModelExact(model) == model = "gemini-2.5-flash"

IsFlashModel(model) == model = "gemini-2.5-flash" \/ model = "gemini-2.5-flash-lite"

\* gemini.ts:151-211.  payload.tools is replaced (req only); in the standard
\* path the tool objects of the caller's array are written in place.
normalizeGoogleSearchTool(st, model) ==
  IF st.req.tools = None THEN st
  ELSE LET tools == st.req.tools[1]
       IN IF ~GoogleSearchRequested(tools) THEN st
          ELSE IF IsFlashModel(model)
               THEN [st EXCEPT !.req.tools = Some(<<NativeSearchTool>>)]
               ELSE LET written == [i \in 1..Len(tools) |-> NormalizeTool(tools[i])]
                    IN [st EXCEPT !.req.tools = Some(SelectSeq(written, KeepsTool)),
                                  !.orig.tools = Some(written)]

\* gemini.ts:135-149
RECURSIVE CountToolsIn(_)
CountToolsIn(tools) ==
  IF tools = <<>> THEN 0
  ELSE (IF Head(tools).functionDeclarations # None
        THEN Len(Head(tools).functionDeclarations[1]) ELSE 0)
       + (IF Truthy(Head(tools).googleSearch) THEN 1 ELSE 0)
       + CountToolsIn(Tail(tools))

countTools(payload) ==
  IF payload.tools = None THEN 0 ELSE CountToolsIn(payload.tools[1])

-----------------------------------------------------------------------------
(* The transformers.  The result holds the serialized envelope as the       *)
(* object JSON.parse gives back, and parsedBody: the caller's object as it  *)
(* is when the call returns.                                                *)

\* gemini.ts:118-124
WrapEnvelope(context, requestPayload) ==
  [project |-> context.projectId,
   model |-> context.model,
   userAgent |-> "antigravity",
   requestId |-> context.requestId,
   request |-> requestPayload]

\* gemini.ts:22-83, the steps before the contents loop
CommonSteps(st) ==
  RemoveModel(ResolveCachedContent(RenameSystemInstruction(
    NormalizeThinking(EnsureValidatedMode(DropSafetySettings(st))))))

\* gemini.ts:18-133
transformGeminiRequest(context, parsedBody, c) ==
  LET st0 == [req |-> parsedBody, orig |-> parsedBody]
      st1 == RestoreSignatures(CommonSteps(st0), c, context.sessionId)
      st2 == normalizeGoogleSearchTool(StampSessionId(st1, context.sessionId),
                                       context.model)
  IN [body |-> WrapEnvelope(context, st2.req),
      debugInfo |-> [transformer |-> "gemini", toolCount |-> countTools(st2.req)],
      parsedBody |-> st2.orig]

\* Specification 4.3: the steps of 4.2 except the search-tool and signature
\* rules, then the thinking-block rule on a copy of the model-role turns.
transformClaudeRequest(context, parsedBody, c) ==
  LET st0 == [req |-> parsedBody, orig |-> parsedBody]
      st1 == CommonSteps(st0)
      contents == IF st1.req.contents = None THEN None
                  ELSE Some(ClaudeContents(c, context.sessionId, st1.req.contents[1]))
      st2 == StampSessionId([st1 EXCEPT !.req.contents = contents], context.sessionId)
  IN [body |-> WrapEnvelope(context, st2.req),
      debugInfo |-> [transformer |-> "claude", toolCount |-> countTools(st2.req)],
      parsedBody |-> parsedBody]

-----------------------------------------------------------------------------
(* Inputs *)

MaxParts == 2
MaxTools == 2
MaxCacheEntries == 1
MaxInFlight == 2

Part(text, thought, signature, functionCall) ==
  [text |-> text, thought |-> thought, thoughtSignature |-> signature,
   functionCall |-> functionCall]

InputSignatures ==
  {Undefined, SHORT_SIGNATURE, THOUGHT_SIGNATURE_BYPASS, VALID_CLAUDE_SIGNATURE}

ThinkingParts ==
  {Part("t1", TRUE, g, Undefined) : g \in InputSignatures}
    \cup {Part("t2", TRUE, g, Undefined) :
            g \in {THOUGHT_SIGNATURE_BYPASS, VALID_CLAUDE_SIGNATURE}}
AnswerParts ==
  {Part("answer", FALSE, g, Undefined) : g \in {Undefined, VALID_CLAUDE_SIGNATURE}}
OpaqueParts == {Part(Undefined, TRUE, Undefined, Undefined)}
FunctionCallParts ==
  {Part(Undefined, FALSE, g, "google_search") : g \in InputSignatures}
Parts == ThinkingParts \cup AnswerParts \cup OpaqueParts \cup FunctionCallParts

RECURSIVE SeqsUpTo(_, _)
SeqsUpTo(S, n) ==
  IF n = 0 THEN {<<>>}
  ELSE LET shorter == SeqsUpTo(S, n - 1)
       IN shorter \cup {Append(q, x) : q \in shorter, x \in S}

Turns == {[role |-> r, parts |-> ps] :
            r \in {"user", "model"}, ps \in SeqsUpTo(Parts, MaxParts) \ {<<>>}}

UserHello == [role |-> "user", parts |-> <<Part("Hello", FALSE, Undefined, Undefined)>>]

EmptyPayload ==
  [safetySettings |-> Undefined, toolConfig |-> None, generationConfig |-> None,
   system_instruction |-> Undefined, systemInstruction |-> Undefined,
   cached_content |-> Undefined, cachedContent |-> Undefined, extra_body |-> None,
   model |-> Undefined, contents |-> None, tools |-> None, sessionId |-> Undefined]

ContentPayloads ==
  {[EmptyPayload EXCEPT !.contents = Some(<<UserHello, turn>>)] : turn \in Turns}

Context(model, sessionId) ==
  [model |-> model, projectId |-> "test-project", streaming |-> TRUE,
   requestId |-> "test-request-id", sessionId |-> sessionId]

GeminiModels == {"gemini-3-pro-high", "gemini-2.5-flash", "gemini-2.5-flash-lite"}
ClaudeModels == {"claude-opus-4-5-thinking"}

Call(context, payload) == [context |-> context, parsedBody |-> payload]

GeminiContentCalls ==
  {Call(Context("gemini-3-pro-high", s), p) : s \in Sessions, p \in ContentPayloads}
ClaudeContentCalls ==
  {Call(Context("claude-opus-4-5-thinking", s), p) : s \in Sessions, p \in ContentPayloads}

OnePartCalls(calls) ==
  {call \in calls : Len(call.parsedBody.contents[1][2].parts) = 1}

\* Payloads that vary the top-level fields of gemini.ts:24-83.
ToolConfigs ==
  {None, Some(EmptyObject),
   Some([functionCallingConfig |-> Some([mode |-> "AUTO"])])}
GenerationConfigs ==
  {None} \cup
  {Some([thinkingConfig |-> tc, temperature |-> "0.7"]) :
     tc \in {Undefined, "{}", "{thinking_budget:1024}", "{thinkingBudget:1024}"}}
ExtraBodies ==
  {None} \cup
  {Some([cached_content |-> a, cachedContent |-> b, other |-> o]) :
     a \in {Undefined, "cache-x"}, b \in {Undefined, "cache-y"},
     o \in {Undefined, "kept"}}

FieldPayloads ==
  {[EmptyPayload EXCEPT !.model = m, !.safetySettings = ss,
                        !.system_instruction = si, !.toolConfig = tc] :
     m \in {Undefined, "gemini-3-pro-preview"}, ss \in {Undefined, "[BLOCK_NONE]"},
     si \in {Undefined, "be brief"}, tc \in ToolConfigs}
  \cup
  {[EmptyPayload EXCEPT !.model = "gemini-3-pro-preview", !.generationConfig = gc] :
     gc \in GenerationConfigs}
  \cup
  {[EmptyPayload EXCEPT !.cached_content = a, !.cachedContent = b, !.extra_body = eb] :
     a \in {Undefined, "cache-a"}, b \in {Undefined, "cache-b"}, eb \in ExtraBodies}

\* Payloads that vary the tools array.
Tool(google_search, googleSearch, urlContext, functionDeclarations) ==
  [google_search |-> google_search, googleSearch |-> googleSearch,
   urlContext |-> urlContext, functionDeclarations |-> functionDeclarations]

Tools ==
  {Tool("{}", Undefined, Undefined, None),
   Tool(Undefined, "{}", Undefined, None),
   Tool(Undefined, Undefined, "{}", None),
   Tool(Undefined, Undefined, Undefined, Some(<<>>)),
   Tool(Undefined, Undefined, Undefined, Some(<<"read_file">>)),
   Tool(Undefined, Undefined, Undefined, Some(<<"google_search">>)),
   Tool(Undefined, Undefined, Undefined, Some(<<"read_file", "google_search">>)),
   Tool("{dynamic}", Undefined, Undefined, Some(<<"google_search", "google_search">>))}

ToolPayloads ==
  {[EmptyPayload EXCEPT !.model = "gemini-3-pro-preview", !.tools = Some(ts)] :
     ts \in SeqsUpTo(Tools, MaxTools)}

GeminiCalls ==
  GeminiContentCalls
    \cup {Call(Context("gemini-3-pro-high", "s1"), p) : p \in FieldPayloads}
    \cup {Call(Context(m, "s1"), p) : m \in GeminiModels, p \in ToolPayloads}
ClaudeCalls ==
  ClaudeContentCalls
    \cup {Call(Context("claude-opus-4-5-thinking", "s1"), p) :
            p \in FieldPayloads \cup ToolPayloads}

-----------------------------------------------------------------------------
(* Strings and headers.  Len, SubSeq and \o apply to strings.               *)

\* String.prototype.startsWith
StartsWith(s, prefix) ==
  Len(s) >= Len(prefix) /\ SubSeq(s, 1, Len(prefix)) = prefix

\* String.prototype.includes
Includes(s, t) ==
  \E i \in 1..(Len(s) - Len(t) + 1) : SubSeq(s, i, i + Len(t) - 1) = t

\* String.prototype.indexOf from position `from` (1-based; 0 when absent)
IndexOf(s, t, from) ==
  LET hits == {i \in from..(Len(s) - Len(t) + 1) : SubSeq(s, i, i + Len(t) - 1) = t}
  IN IF hits = {} THEN 0 ELSE CHOOSE i \in hits : \A j \in hits : i <= j

\* The Headers class keeps names in lower case.
LowerCase(name) ==
  CASE name = "Authorization" -> "authorization"
    [] name = "X-Api-Key" -> "x-api-key"
    [] name = "Accept" -> "accept"
    [] name = "User-Agent" -> "user-agent"
    [] name = "X-Goog-Api-Client" -> "x-goog-api-client"
    [] name = "Client-Metadata" -> "client-metadata"
    [] name = "Content-Type" -> "content-type"
    [] name = "Retry-After" -> "retry-after"
    [] OTHER -> name

NoHeaders == [n \in {} |-> Undefined]

\* new Headers(init): a map from lower-case names to values
NewHeaders(init) ==
  [n \in {LowerCase(k) : k \in DOMAIN init} |->
     init[CHOOSE k \in DOMAIN init : LowerCase(k) = n]]

HeadersGet(h, name) ==
  IF LowerCase(name) \in DOMAIN h THEN h[LowerCase(name)] ELSE Undefined

HeadersSet(h, name, value) ==
  [n \in DOMAIN h \cup {LowerCase(name)} |->
     IF n = LowerCase(name) THEN value ELSE h[n]]

HeadersDelete(h, name) ==
  [n \in DOMAIN h \ {LowerCase(name)} |-> h[n]]

-----------------------------------------------------------------------------
(* Numbers.  A retry delay is parsed by parseFloat into an IEEE-754 double  *)
(* and multiplied as a double.  A natural number too wide for 32-bit        *)
(* integers is a sequence of bits, least significant first; a positive      *)
(* double is [mant |-> 53 bits, exp |-> e], the value Val(mant) * 2^e.      *)

MANTISSA_BITS == 53

Digits == {"0", "1", "2", "3", "4", "5", "6", "7", "8", "9"}

DigitValue(c) ==
  CASE c = "0" -> 0 [] c = "1" -> 1 [] c = "2" -> 2 [] c = "3" -> 3
    [] c = "4" -> 4 [] c = "5" -> 5 [] c = "6" -> 6 [] c = "7" -> 7
    [] c = "8" -> 8 [] c = "9" -> 9

RECURSIVE Pow10(_)
Pow10(k) == IF k = 0 THEN 1 ELSE 10 * Pow10(k - 1)

RECURSIVE Bits(_)
Bits(n) == IF n = 0 THEN <<>> ELSE <<n % 2>> \o Bits(n \div 2)

RECURSIVE Val(_)
Val(bits) == IF bits = <<>> THEN 0 ELSE Head(bits) + 2 * Val(Tail(bits))

Zeros(n) == [i \in 1..n |-> 0]

HasOne(bits) == \E i \in 1..Len(bits) : bits[i] = 1

\* bits * c for a small c
RECURSIVE MulSmall(_, _, _)
MulSmall(bits, c, carry) ==
  IF bits = <<>> THEN Bits(carry)
  ELSE LET v == Head(bits) * c + carry
       IN <<v % 2>> \o MulSmall(Tail(bits), c, v \div 2)

\* A wide natural as 16-bit limbs, least significant first.
LIMB == 65536
LIMB_BITS == 16

RECURSIVE Limbs(_)
Limbs(n) == IF n = 0 THEN <<>> ELSE <<n % LIMB>> \o Limbs(n \div LIMB)

\* limbs divided by a small m: quotient limbs and remainder
RECURSIVE DivSmall(_, _)
DivSmall(limbs, m) ==
  IF limbs = <<>> THEN [q |-> <<>>, r |-> 0]
  ELSE LET hi == DivSmall(Tail(limbs), m)
           v == hi.r * LIMB + Head(limbs)
       IN [q |-> <<v \div m>> \o hi.q, r |-> v % m]

LimbBits(limbs) ==
  [i \in 1..(LIMB_BITS * Len(limbs)) |->
     (limbs[(i - 1) \div LIMB_BITS + 1] \div 2^((i - 1) % LIMB_BITS)) % 2]

RECURSIVE StripHigh(_)
StripHigh(bits) ==
  IF bits = <<>> \/ bits[Len(bits)] = 1 THEN bits
  ELSE StripHigh(SubSeq(bits, 1, Len(bits) - 1))

RECURSIVE Increment(_)
Increment(bits) ==
  IF bits = <<>> THEN <<1>>
  ELSE IF Head(bits) = 0 THEN <<1>> \o Tail(bits)
  ELSE <<0>> \o Increment(Tail(bits))

\* Round the natural `bits` (with `sticky` telling a non-zero fraction below
\* it) to 53 significant bits, ties to even: the value is Val(mant) * 2^shift.
RoundToDouble(bits, sticky) ==
  LET p == StripHigh(bits)
      shift == Len(p) - MANTISSA_BITS
  IN IF shift <= 0 THEN [mant |-> Zeros(0 - shift) \o p, shift |-> shift]
     ELSE LET kept == SubSeq(p, shift + 1, Len(p))
              half == p[shift] = 1
              below == sticky \/ HasOne(SubSeq(p, 1, shift - 1))
              up == half /\ (below \/ kept[1] = 1)
              rounded == IF up THEN Increment(kept) ELSE kept
          IN IF Len(rounded) > MANTISSA_BITS
             THEN [mant |-> Tail(rounded), shift |-> shift + 1]
             ELSE [mant |-> rounded, shift |-> shift]

SCALE_LIMBS == 5

\* The double nearest to n / 10^k, n > 0: n * 2^80 / 10^k rounded to 53 bits.
ToDouble(n, k) ==
  LET d == DivSmall(Zeros(SCALE_LIMBS) \o Limbs(n), Pow10(k))
      r == RoundToDouble(LimbBits(d.q), d.r # 0)
  IN [mant |-> r.mant, exp |-> r.shift - LIMB_BITS * SCALE_LIMBS]

\* x * c as a double, c a small natural
TimesSmall(x, c) ==
  LET r == RoundToDouble(MulSmall(x.mant, c, 0), FALSE)
  IN [mant |-> r.mant, exp |-> x.exp + r.shift]

\* Math.ceil of a positive double below 2^31
Ceil(x) ==
  LET cut == IF 0 - x.exp > MANTISSA_BITS THEN MANTISSA_BITS ELSE 0 - x.exp
  IN IF x.exp >= 0 THEN Val(Zeros(x.exp) \o x.mant)
     ELSE Val(SubSeq(x.mant, cut + 1, MANTISSA_BITS))
            + (IF HasOne(SubSeq(x.mant, 1, cut)) THEN 1 ELSE 0)

\* The longest prefix of s made of digits, from position i
RECURSIVE DigitRun(_, _)
DigitRun(s, i) ==
  IF i <= Len(s) /\ SubSeq(s, i, i) \in Digits
  THEN SubSeq(s, i, i) \o DigitRun(s, i + 1)
  ELSE ""

RECURSIVE DigitsValue(_)
DigitsValue(s) ==
  IF s = "" THEN 0
  ELSE 10 * DigitsValue(SubSeq(s, 1, Len(s) - 1)) + DigitValue(SubSeq(s, Len(s), Len(s)))

\* parseFloat of a string of digits and dots: [nan, n, k], the number
\* n / 10^k read from the longest prefix that is a decimal literal.
parseFloat(s) ==
  LET whole == DigitRun(s, 1)
      dot == Len(whole) < Len(s) /\ SubSeq(s, Len(whole) + 1, Len(whole) + 1) = "."
      frac == IF dot THEN DigitRun(s, Len(whole) + 2) ELSE ""
  IN [nan |-> whole = "" /\ frac = "",
      n |-> DigitsValue(whole \o frac),
      k |-> Len(frac)]

-----------------------------------------------------------------------------
(* Response bodies.  A body text is the sequence of its lines (split and    *)
(* join on "\n"); the empty text has no line.  A line is [head, json,       *)
(* rest]: the characters `head`, then either the JSON object `json` or the  *)
(* characters `rest`.  A JSON object of the backend is [response, error,    *)
(* usageMetadata, text], each None when the key is absent.                  *)

JsonObject(response, error, usageMetadata, text) ==
  [response |-> response, error |-> error, usageMetadata |-> usageMetadata,
   text |-> text]

Line(head, json, rest) == [head |-> head, json |-> json, rest |-> rest]

\* `data: ${JSON.stringify(value)}` and JSON.stringify(value)
DataLine(value) == Line("data: ", Some(value), "")
JsonLine(value) == Line("", Some(value), "")

\* The characters a line starts with, up to its JSON object if it has one.
LineStart(line) == IF line.json # None THEN line.head \o "{" ELSE line.head \o line.rest

\* String.prototype.trim, spaces only
RECURSIVE Trim(_)
Trim(s) ==
  IF s = "" THEN s
  ELSE IF SubSeq(s, 1, 1) = " " THEN Trim(SubSeq(s, 2, Len(s)))
  ELSE IF SubSeq(s, Len(s), Len(s)) = " " THEN Trim(SubSeq(s, 1, Len(s) - 1))
  ELSE s

\* JSON.parse of the characters after `from` leading ones: Some(object), or
\* None when the parse throws or gives a value that is not an object.
ParseObject(line, from) ==
  IF line.json # None /\ Trim(SubSeq(line.head, from + 1, Len(line.head))) = ""
  THEN line.json ELSE None

\* Faulty variant: the whole parsed event is written back, envelope included.
transformStreamingLineKeepsEnvelope(line) ==
  IF ~StartsWith(LineStart(line), "data:") THEN line
  ELSE IF line.json = None /\ Trim(SubSeq(line.head \o line.rest, 6,
                                           Len(line.head \o line.rest))) = ""
       THEN line
  ELSE LET parsed == ParseObject(line, 5)
       IN IF parsed # None /\ parsed[1].response # None
          THEN DataLine(parsed[1])
          ELSE line

\* request.ts:40-55, the callback of map
transformStreamingLine(line) ==
  IF ~StartsWith(LineStart(line), "data:") THEN line
  ELSE IF line.json = None /\ Trim(SubSeq(line.head \o line.rest, 6,
                                           Len(line.head \o line.rest))) = ""
       THEN line
  ELSE LET parsed == ParseObject(line, 5)
       IN IF parsed # None /\ parsed[1].response # None
          THEN DataLine(parsed[1].response[1])
          ELSE line

\* request.ts:37-57
transformStreamingPayload(payload) ==
  [i \in 1..Len(payload) |-> transformStreamingLine(payload[i])]

\* JSON.parse(text) at request.ts:198 and in parseGeminiApiBody: the text is
\* one JSON object, or the parse fails (None).
ParseText(text) ==
  IF Len(text) = 1 THEN ParseObject(text[1], 0) ELSE None

\* request-helpers: the body parsed as a generic backend payload
\* (specification 4.4), None when it is not one.
parseGeminiApiBody(text) == ParseText(text)

PREVIEW_ACCESS_MESSAGE == "Model requires preview access"
PreviewAccessHint(requestedModel) ==
  "Preview access is required for " \o requestedModel

\* request-helpers: the preview-access error rewrite (specification 4.4):
\* the body with an actionable message naming the requested model, or None
\* when the body is not that error.
rewriteGeminiPreviewAccessError(body, status, requestedModel) ==
  IF body.error # None /\ body.error[1].message = PREVIEW_ACCESS_MESSAGE
  THEN Some([body EXCEPT !.error =
               Some([body.error[1] EXCEPT !.message = PreviewAccessHint(requestedModel)])])
  ELSE None

\* request-helpers: the usage metadata of a payload (specification 3), None
\* when it has none.
extractUsageMetadata(body) ==
  IF body.response # None THEN body.response[1].usageMetadata ELSE None

\* request-helpers: the usage metadata found by scanning the data: lines of
\* the buffered event stream (specification 4.4), None when no line has any.
extractUsageFromSsePayload(payload) ==
  LET Usage(i) ==
        LET parsed == IF StartsWith(LineStart(payload[i]), "data:")
                      THEN ParseObject(payload[i], 5) ELSE None
        IN IF parsed = None THEN None ELSE extractUsageMetadata(parsed[1])
      found == {i \in 1..Len(payload) : Usage(i) # None}
  IN IF found = {} THEN None
     ELSE Usage(CHOOSE i \in found : \A j \in found : j <= i)

-----------------------------------------------------------------------------
(* Response Normalizer, request.ts:175-277.  A response is [status,         *)
(* statusText, headers, text].                                              *)

RETRY_INFO_TYPE == "type.googleapis.com/google.rpc.RetryInfo"

\* Response.ok
Ok(response) == response.status >= 200 /\ response.status <= 299

\* request.ts:205, /^([\d.]+)s$/: the captured group, or Undefined
MatchRetryDelay(retryDelay) ==
  LET n == Len(retryDelay)
  IN IF /\ n >= 2
        /\ SubSeq(retryDelay, n, n) = "s"
        /\ \A i \in 1..(n - 1) : SubSeq(retryDelay, i, i) \in Digits \cup {"."}
     THEN SubSeq(retryDelay, 1, n - 1)
     ELSE Undefined

\* request.ts:200-202, Array.prototype.find
FindRetryInfo(details) ==
  LET hits == {i \in 1..Len(details) : details[i].type = RETRY_INFO_TYPE}
  IN IF hits = {} THEN None
     ELSE Some(details[CHOOSE i \in hits : \A j \in hits : i <= j])

\* request.ts:204-215
SetRetryHeaders(headers, retryInfo) ==
  LET matched == IF Truthy(retryInfo.retryDelay)
                 THEN MatchRetryDelay(retryInfo.retryDelay) ELSE Undefined
      parsed == parseFloat(matched)
      retrySeconds == ToDouble(parsed.n, parsed.k)
  IN IF Truthy(matched) /\ ~parsed.nan /\ parsed.n > 0
     THEN HeadersSet(HeadersSet(headers, "Retry-After", ToString(Ceil(retrySeconds))),
                     "retry-after-ms", ToString(Ceil(TimesSmall(retrySeconds, 1000))))
     ELSE headers

\* request.ts:196-219
RetryHeaders(headers, response) ==
  LET errorBody == ParseText(response.text)
      details == IF errorBody # None /\ errorBody[1].error # None
                 THEN errorBody[1].error[1].details ELSE None
      retryInfo == IF details # None THEN FindRetryInfo(details[1]) ELSE None
  IN IF ~Ok(response) /\ response.text # <<>> /\ retryInfo # None
     THEN SetRetryHeaders(headers, retryInfo[1])
     ELSE headers

\* Faulty variant: only the cached-content count becomes a header.
UsageHeadersCachedOnly(headers, usage) ==
  IF usage # None /\ usage[1].cachedContentTokenCount # None
  THEN HeadersSet(headers, "x-gemini-cached-content-token-count",
                  ToString(usage[1].cachedContentTokenCount[1]))
  ELSE headers

\* request.ts:233-244
UsageHeaders(headers, usage) ==
  LET Put(h, name, count) ==
        IF count # None THEN HeadersSet(h, name, ToString(count[1])) ELSE h
  IN IF usage # None /\ usage[1].cachedContentTokenCount # None
     THEN Put(Put(Put(Put(headers,
            "x-gemini-cached-content-token-count", usage[1].cachedContentTokenCount),
            "x-gemini-total-token-count", usage[1].totalTokenCount),
            "x-gemini-prompt-token-count", usage[1].promptTokenCount),
            "x-gemini-candidates-token-count", usage[1].candidatesTokenCount)
     ELSE headers

\* request.ts:252-268, the body of the returned response
\* Faulty variant: the patched error body is preferred to the response field.
NormalizedTextPatchedFirst(response, streaming, isEventStreamResponse, parsed, patched) ==
  LET effectiveBody == IF patched # None THEN patched ELSE parsed
  IN IF streaming /\ Ok(response) /\ isEventStreamResponse
     THEN transformStreamingPayload(response.text)
     ELSE IF parsed = None THEN response.text
     ELSE IF patched # None THEN <<JsonLine(patched[1])>>
     ELSE IF effectiveBody[1].response # None
          THEN <<JsonLine(effectiveBody[1].response[1])>>
     ELSE response.text

NormalizedText(response, streaming, isEventStreamResponse, parsed, patched) ==
  LET effectiveBody == IF patched # None THEN patched ELSE parsed
  IN IF streaming /\ Ok(response) /\ isEventStreamResponse
     THEN transformStreamingPayload(response.text)
     ELSE IF parsed = None THEN response.text
     ELSE IF effectiveBody[1].response # None
          THEN <<JsonLine(effectiveBody[1].response[1])>>
     ELSE IF patched # None THEN <<JsonLine(patched[1])>>
     ELSE response.text

\* request.ts:175-277
transformAntigravityResponse(response, streaming, requestedModel) ==
  LET contentType == Nullish(HeadersGet(response.headers, "content-type"), "")
      isJsonResponse == Includes(contentType, "application/json")
      isEventStreamResponse == Includes(contentType, "text/event-stream")
      headers == RetryHeaders(NewHeaders(response.headers), response)
      usageFromSse == IF streaming /\ isEventStreamResponse
                      THEN extractUsageFromSsePayload(response.text) ELSE None
      parsed == IF ~streaming \/ ~isEventStreamResponse
                THEN parseGeminiApiBody(response.text) ELSE None
      patched == IF parsed # None
                 THEN rewriteGeminiPreviewAccessError(parsed[1], response.status,
                                                      requestedModel)
                 ELSE None
      effectiveBody == IF patched # None THEN patched ELSE parsed
      usage == IF usageFromSse # None THEN usageFromSse
               ELSE IF effectiveBody # None THEN extractUsageMetadata(effectiveBody[1])
               ELSE None
  IN IF ~isJsonResponse /\ ~isEventStreamResponse THEN response
     ELSE [status |-> response.status,
           statusText |-> response.statusText,
           headers |-> UsageHeaders(headers, usage),
           text |-> NormalizedText(response, streaming, isEventStreamResponse,
                                   parsed, patched)]

-----------------------------------------------------------------------------
(* Gateway, request.ts:18-169.  A call is [input, init, accessToken,        *)
(* projectId]; input is [isString, url] (a URL string, or a Request object  *)
(* for that URL); init is [method, headers, body].  A body is [isString,    *)
(* text, json]: no body, or the string `text`, or the string that           *)
(* JSON.stringify gives for the object json[1].                             *)

STREAM_ACTION == "streamGenerateContent"
API_HOST == "generativelanguage.googleapis.com"

\* ../constants: the internal endpoint and the fixed client headers
CODE_ASSIST_ENDPOINT == "https://code-assist.endpoint"
CODE_ASSIST_HEADERS ==
  [n \in {"User-Agent", "X-Goog-Api-Client", "Client-Metadata"} |->
     "code-assist " \o n]

\* request.ts:20-27
MODEL_ALIASES(rawModel) ==
  CASE rawModel = "gemini-2.5-computer-use-preview-10-2025" -> "rev19-uic3-1p"
    [] rawModel = "gemini-3-pro-image-preview" -> "gemini-3-pro-image"
    [] rawModel = "gemini-3-pro-preview" -> "gemini-3-pro-high"
    [] rawModel = "gemini-claude-sonnet-4-5" -> "claude-sonnet-4-5"
    [] rawModel = "gemini-claude-sonnet-4-5-thinking" -> "claude-sonnet-4-5-thinking"
    [] rawModel = "gemini-claude-opus-4-5-thinking" -> "claude-opus-4-5-thinking"
    [] OTHER -> Undefined

\* request.ts:29-31
MODEL_FALLBACKS(rawModel) ==
  CASE rawModel = "gemini-2.5-flash-image" -> "gemini-2.5-flash"
    [] OTHER -> Undefined

\* request.ts:33-35
isGenerativeLanguageRequest(input) ==
  input.isString /\ Includes(input.url, API_HOST)

\* Faulty variant: the fallback table is never consulted.
resolveModelNameAliasOnly(rawModel) ==
  LET aliased == MODEL_ALIASES(rawModel)
  IN IF Truthy(aliased) THEN aliased ELSE rawModel

\* request.ts:59-65
resolveModelName(rawModel) ==
  LET aliased == MODEL_ALIASES(rawModel)
  IN IF Truthy(aliased) THEN aliased
     ELSE Nullish(MODEL_FALLBACKS(rawModel), rawModel)

WordChars ==
  {"a", "b", "c", "d", "e", "f", "g", "h", "i", "j", "k", "l", "m", "n", "o",
   "p", "q", "r", "s", "t", "u", "v", "w", "x", "y", "z", "A", "B", "C", "D",
   "E", "F", "G", "H", "I", "J", "K", "L", "M", "N", "O", "P", "Q", "R", "S",
   "T", "U", "V", "W", "X", "Y", "Z", "_"} \cup Digits

\* The longest run of word characters of s from position i
WordRun(s, i) ==
  LET stops == {j \in i..Len(s) : SubSeq(s, j, j) \notin WordChars}
      end == IF stops = {} THEN Len(s)
             ELSE (CHOOSE j \in stops : \A k \in stops : j <= k) - 1
  IN IF end < i THEN "" ELSE SubSeq(s, i, end)

\* request.ts:87, input.match(/\/models\/([^:]+):(\w+)/): None, or
\* Some([rawModel, rawAction]) of the leftmost match.
MatchModelAction(url) ==
  LET After(i) == i + Len("/models/")
      Colon(i) == IndexOf(url, ":", After(i))
      Matches(i) ==
        /\ After(i) - 1 <= Len(url)
        /\ SubSeq(url, i, After(i) - 1) = "/models/"
        /\ Colon(i) > After(i)
        /\ WordRun(url, Colon(i) + 1) # ""
      starts == {i \in 1..Len(url) : Matches(i)}
  IN IF starts = {} THEN None
     ELSE LET i == CHOOSE x \in starts : \A y \in starts : x <= y
          IN Some([rawModel |-> SubSeq(url, After(i), Colon(i) - 1),
                   rawAction |-> WordRun(url, Colon(i) + 1)])

NoBody == [isString |-> FALSE, text |-> Undefined, json |-> None]
TextBody(text) == [isString |-> TRUE, text |-> text, json |-> None]
JsonBody(value) == [isString |-> TRUE, text |-> Undefined, json |-> Some(value)]

\* A member of contents that is the JSON value null.
NullTurn == [role |-> "null", parts |-> <<>>]

\* gemini.ts:88, content.parts of a null member of contents throws.
GeminiThrows(parsedBody) ==
  /\ parsedBody.contents # None
  /\ \E i \in 1..Len(parsedBody.contents[1]) : parsedBody.contents[1][i] = NullTurn

\* request.ts:109
IsWrapped(parsedBody) ==
  /\ "project" \in DOMAIN parsedBody
  /\ parsedBody.project # Undefined
  /\ "request" \in DOMAIN parsedBody

\* Faulty variant: the envelope is given the gateway's own project id.
RefreshEnvelopeOwnProject(parsedBody, effectiveModel, projectId, requestId, sessionId) ==
  [parsedBody EXCEPT !.project = projectId,
                     !.model = effectiveModel,
                     !.userAgent = "antigravity",
                     !.requestId = requestId,
                     !.request.sessionId = sessionId]

\* request.ts:112-120
RefreshEnvelope(parsedBody, effectiveModel, projectId, requestId, sessionId) ==
  [parsedBody EXCEPT !.model = effectiveModel,
                     !.userAgent = "antigravity",
                     !.requestId = requestId,
                     !.request.sessionId = sessionId]

\* Faulty variant: the family is read off the start of the model name.
IsClaudeModelByPrefix(effectiveModel) == StartsWith(effectiveModel, "gemini-claude")

\* request.ts:131
IsClaudeModel(effectiveModel) == Includes(effectiveModel, "claude")

\* Faulty variant: a failure leaves the call without a body.
FailedBodyDropped(body) == NoBody

\* request.ts:103,146-148: after a caught failure `body` still holds the
\* caller's body.
FailedBody(body) == body

\* request.ts:103-149: [body, transformer], the outbound body and the
\* transformer that produced it ("none" when none ran to completion).
PrepareBody(body, effectiveModel, streaming, projectId, requestId, sessionId, c) ==
  IF ~(body.isString /\ body.text # "")
  THEN [body |-> body, transformer |-> "none"]
  ELSE IF body.json = None      \* JSON.parse throws, or gives null
  THEN [body |-> FailedBody(body), transformer |-> "none"]
  ELSE LET parsedBody == body.json[1]
           contextOfCall == [model |-> effectiveModel, projectId |-> projectId,
                             streaming |-> streaming, requestId |-> requestId,
                             sessionId |-> sessionId]
       IN IF IsWrapped(parsedBody)
          THEN [body |-> JsonBody(RefreshEnvelope(parsedBody, effectiveModel, projectId,
                                                  requestId, sessionId)),
                transformer |-> "none"]
          ELSE IF IsClaudeModel(effectiveModel)
          THEN [body |-> JsonBody(transformClaudeRequest(contextOfCall, parsedBody, c).body),
                transformer |-> "claude"]
          ELSE IF GeminiThrows(parsedBody)
          THEN [body |-> FailedBody(body), transformer |-> "none"]
          ELSE [body |-> JsonBody(transformGeminiRequest(contextOfCall, parsedBody, c).body),
                transformer |-> "gemini"]

\* Faulty variant: the caller's API key is left among the headers.
AuthorizeKeepsApiKey(headers, accessToken) ==
  HeadersSet(headers, "Authorization", "Bearer " \o accessToken)

\* request.ts:84-85
Authorize(headers, accessToken) ==
  HeadersDelete(HeadersSet(headers, "Authorization", "Bearer " \o accessToken),
                "x-api-key")

\* Faulty variant: the Accept header is set whether or not the call streams.
ClientHeadersAlwaysStream(headers, streaming) ==
  HeadersSet(HeadersSet(HeadersSet(HeadersSet(headers,
       "Accept", "text/event-stream"),
       "User-Agent", CODE_ASSIST_HEADERS["User-Agent"]),
       "X-Goog-Api-Client", CODE_ASSIST_HEADERS["X-Goog-Api-Client"]),
       "Client-Metadata", CODE_ASSIST_HEADERS["Client-Metadata"])

\* request.ts:151-157
ClientHeaders(headers, streaming) ==
  LET accepted == IF streaming THEN HeadersSet(headers, "Accept", "text/event-stream")
                  ELSE headers
  IN HeadersSet(HeadersSet(HeadersSet(accepted,
       "User-Agent", CODE_ASSIST_HEADERS["User-Agent"]),
       "X-Goog-Api-Client", CODE_ASSIST_HEADERS["X-Goog-Api-Client"]),
       "Client-Metadata", CODE_ASSIST_HEADERS["Client-Metadata"])

\* The returned descriptor; requestedModel is Undefined when the key is absent,
\* transformer tells which transformer built the body.
Prepared(request, init, streaming, requestedModel, transformer) ==
  [request |-> request, init |-> init, streaming |-> streaming,
   requestedModel |-> requestedModel, transformer |-> transformer]

\* request.ts:67-169
prepareAntigravityRequest(call, requestId, sessionId, c) ==
  LET baseInit == call.init
      headers == NewHeaders(call.init.headers)
      authorized == Authorize(headers, call.accessToken)
      match == MatchModelAction(call.input.url)
  IN IF ~isGenerativeLanguageRequest(call.input)
     THEN Prepared(call.input, [baseInit EXCEPT !.headers = headers],
                   FALSE, Undefined, "none")
     ELSE IF match = None
     THEN Prepared(call.input, [baseInit EXCEPT !.headers = authorized],
                   FALSE, Undefined, "none")
     ELSE LET rawModel == match[1].rawModel
              rawAction == match[1].rawAction
              effectiveModel == resolveModelName(rawModel)
              streaming == rawAction = STREAM_ACTION
              transformedUrl == CODE_ASSIST_ENDPOINT \o "/v1internal:" \o rawAction
                                  \o (IF streaming THEN "?alt=sse" ELSE "")
              prepared == PrepareBody(baseInit.body, effectiveModel, streaming,
                                      call.projectId, requestId, sessionId, c)
          IN Prepared([isString |-> TRUE, url |-> transformedUrl],
                      [baseInit EXCEPT !.headers = ClientHeaders(authorized, streaming),
                                       !.body = prepared.body],
                      streaming, rawModel, prepared.transformer)

-----------------------------------------------------------------------------
(* Inputs of the gateway *)

MaxLines == 2
MaxDetails == 2

\* Backend responses
Usage(prompt, candidates, cached, total) ==
  [promptTokenCount |-> prompt, candidatesTokenCount |-> candidates,
   cachedContentTokenCount |-> cached, totalTokenCount |-> total]

Usages ==
  {Usage(Some(10), Some(5), Some(40), Some(55)),
   Usage(Some(10), Some(5), None, Some(15)),
   Usage(None, None, Some(40), None)}

\* a canonical response payload, and the envelope the backend puts around it
ResponsePayload(usageMetadata) == JsonObject(None, None, usageMetadata, "chunk")
ResponseEnvelope(usageMetadata) ==
  JsonObject(Some(ResponsePayload(usageMetadata)), None, None, Undefined)

ErrorObject(message, details) == [message |-> message, details |-> details]
Detail(type, retryDelay) == [type |-> type, retryDelay |-> retryDelay]
ErrorInfoDetail == Detail("type.googleapis.com/google.rpc.ErrorInfo", Undefined)

RetryDelays == {"12.5s", "16.1s", "30s", "0.5s", "0s", ".s", "soon", Undefined}

DetailSeqs ==
  {q \o <<Detail(RETRY_INFO_TYPE, d)>> :
     q \in SeqsUpTo({ErrorInfoDetail}, MaxDetails - 1), d \in RetryDelays}
  \cup SeqsUpTo({ErrorInfoDetail}, MaxDetails)
  \cup {<<Detail(RETRY_INFO_TYPE, "12.5s"), Detail(RETRY_INFO_TYPE, "30s")>>}

ErrorBody(error) == JsonObject(None, Some(error), None, Undefined)

JsonBodies ==
  {ResponseEnvelope(None), ResponsePayload(None)}
  \cup {ResponseEnvelope(Some(u)) : u \in Usages}
  \cup {ErrorBody(ErrorObject("Resource exhausted", Some(ds))) : ds \in DetailSeqs}
  \cup {ErrorBody(ErrorObject("Internal error", None)),
        ErrorBody(ErrorObject(PREVIEW_ACCESS_MESSAGE, None)),
        JsonObject(Some(ResponsePayload(None)),
                   Some(ErrorObject(PREVIEW_ACCESS_MESSAGE, None)), None, Undefined)}

JsonTexts ==
  {<<JsonLine(b)>> : b \in JsonBodies}
  \cup {<<>>, <<Line("", None, "Internal Server Error")>>}

StreamLines ==
  {DataLine(ResponseEnvelope(None)),
   Line("data:", Some(ResponseEnvelope(None)), ""),
   DataLine(ResponseEnvelope(Some(Usage(Some(10), Some(5), Some(40), Some(55))))),
   DataLine(ResponseEnvelope(Some(Usage(Some(10), Some(5), None, Some(15))))),
   DataLine(ErrorBody(ErrorObject("Internal error", None))),
   Line("data: ", None, "[DONE]"),
   Line("data:", None, " "),
   Line("", None, "event: message"),
   Line("", None, "")}

StreamTexts == SeqsUpTo(StreamLines, MaxLines)

Statuses ==
  {[status |-> 200, statusText |-> "OK"],
   [status |-> 404, statusText |-> "Not Found"],
   [status |-> 429, statusText |-> "Too Many Requests"]}

Response(status, contentType, text) ==
  [status |-> status.status, statusText |-> status.statusText,
   headers |-> IF contentType = Undefined THEN "server" :> "ESF"
               ELSE ("content-type" :> contentType) @@ ("server" :> "ESF"),
   text |-> text]

BackendCall(response, streaming, requestedModel) ==
  [response |-> response, streaming |-> streaming, requestedModel |-> requestedModel]

BackendCalls ==
  {BackendCall(Response(st, "text/event-stream", text), streaming, "gemini-3-pro-preview") :
     st \in {x \in Statuses : x.status # 404}, text \in StreamTexts,
     streaming \in BOOLEAN}
  \cup
  {BackendCall(Response(st, ct, text), streaming, "gemini-3-pro-preview") :
     st \in Statuses,
     ct \in {"application/json", "application/json; charset=utf-8", "text/plain",
             Undefined},
     text \in JsonTexts, streaming \in BOOLEAN}

\* Calls
RequestIds == {"req-1"}

ModelUrl(host, model, action) ==
  "https://" \o host \o "/v1beta/models/" \o model \o ":" \o action

UrlModels ==
  {"gemini-3-pro-preview", "gemini-2.5-flash", "gemini-2.5-flash-image",
   "gemini-2.5-computer-use-preview-10-2025", "gemini-3-pro-image-preview",
   "gemini-3-pro-high",
   "gemini-claude-sonnet-4-5", "gemini-claude-sonnet-4-5-thinking",
   "gemini-claude-opus-4-5-thinking"}

ModelUrls ==
  {ModelUrl(API_HOST, m, a) :
     m \in UrlModels, a \in {"generateContent", "streamGenerateContent?alt=sse"}}
  \cup {ModelUrl(API_HOST, "gemini-3-pro-preview", "countTokens")}

BodyUrls ==
  {ModelUrl(API_HOST, "gemini-3-pro-preview", "generateContent"),
   ModelUrl(API_HOST, "gemini-2.5-flash", "streamGenerateContent?alt=sse"),
   ModelUrl(API_HOST, "gemini-claude-sonnet-4-5-thinking", "generateContent"),
   ModelUrl(API_HOST, "gemini-claude-opus-4-5-thinking", "streamGenerateContent?alt=sse")}

OtherUrls ==
  {"https://" \o API_HOST \o "/v1beta/models",
   "https://example.com/v1/chat/completions",
   "https://example.com/v1/models/gpt:generateContent",
   ModelUrl("proxy.example.com/" \o API_HOST, "gemini-2.5-flash", "generateContent"),
   "https://example.com/search?q=" \o API_HOST}

Inputs ==
  {[isString |-> TRUE, url |-> u] : u \in ModelUrls \cup OtherUrls}
  \cup {[isString |-> FALSE, url |-> u] :
          u \in {ModelUrl(API_HOST, "gemini-2.5-flash", "generateContent"),
                 "https://" \o API_HOST \o "/v1beta/models"}}

CallerHeaders ==
  {NoHeaders,
   ("X-Api-Key" :> "caller-key") @@ ("Accept" :> "application/json"),
   ("x-api-key" :> "caller-key") @@ ("Authorization" :> "Bearer stale")
     @@ ("User-Agent" :> "opencode"),
   ("Accept" :> "text/event-stream") @@ ("x-custom" :> "1")}

ModelTurn(part) == [role |-> "model", parts |-> <<part>>]

GatewayPayloads ==
  {[EmptyPayload EXCEPT !.contents = Some(<<UserHello, ModelTurn(part)>>)] :
     part \in ThinkingParts \cup FunctionCallParts}
  \cup {[EmptyPayload EXCEPT !.model = "gemini-3-pro-preview",
                             !.safetySettings = "[BLOCK_NONE]",
                             !.system_instruction = "be brief"],
        [EmptyPayload EXCEPT !.tools =
           Some(<<Tool(Undefined, Undefined, Undefined, Some(<<"read_file">>)),
                  Tool(Undefined, Undefined, Undefined, Some(<<"google_search">>))>>)]}

ThrowingPayloads ==
  {[EmptyPayload EXCEPT !.contents = Some(<<UserHello, NullTurn>>)]}

\* a body an upstream caller has already enveloped
CallerEnvelope(model, requestId, request) ==
  [project |-> "caller-project", model |-> model, userAgent |-> "upstream",
   requestId |-> requestId, request |-> request]

EnvelopedPayloads ==
  {CallerEnvelope(m, "caller-request", p) :
     m \in {Undefined, "gemini-3-pro-preview"},
     p \in {[EmptyPayload EXCEPT
               !.contents = Some(<<UserHello, ModelTurn(Part("t1", TRUE, g, Undefined))>>),
               !.model = pm, !.sessionId = ps] :
              g \in {SHORT_SIGNATURE, VALID_CLAUDE_SIGNATURE},
              pm \in {Undefined, "gemini-3-pro-preview"},
              ps \in {Undefined, "caller-session"}}}

UnparsedBodies == {NoBody, TextBody(""), TextBody("not json"), TextBody("null")}

RequestInit(method, headers, body) == [method |-> method, headers |-> headers, body |-> body]

GatewayCall(input, init) ==
  [input |-> input, init |-> init, accessToken |-> "access-token",
   projectId |-> "project-1"]

GatewayCalls ==
  {GatewayCall(i, RequestInit("POST", h, b)) :
     i \in Inputs, h \in CallerHeaders,
     b \in {NoBody, JsonBody([EmptyPayload EXCEPT !.model = "gemini-3-pro-preview"])}}
  \cup
  {GatewayCall([isString |-> TRUE, url |-> u],
               RequestInit("POST", "Content-Type" :> "application/json", b)) :
     u \in BodyUrls,
     b \in UnparsedBodies \cup {JsonBody(p) : p \in GatewayPayloads \cup EnvelopedPayloads}}
  \cup
  {GatewayCall([isString |-> TRUE, url |-> ModelUrl(API_HOST, m, a)],
               RequestInit("POST", NoHeaders, JsonBody(p))) :
     m \in {"gemini-3-pro-preview", "gemini-2.5-flash-image"},
     a \in {"generateContent", "streamGenerateContent"},
     p \in ThrowingPayloads}

-----------------------------------------------------------------------------
(* State *)

VARIABLES
  cache,       \* the Signature Continuity Cache
  pc,          \* "idle", or "done" when a transformer has returned
  op,          \* the transformer that ran: "gemini" or "claude"
  context,     \* its TransformContext
  parsedBody,  \* the payload as the caller passed it
  original,    \* the caller's payload object when the call returned
  result,      \* the TransformResult
  observed,    \* history: the last authentic block a Gemini transform saw
  fetchCall,   \* the call handed to prepareAntigravityRequest
  generated,   \* the request id and session id the helpers gave that call
  prepared,    \* what prepareAntigravityRequest returned
  backend,     \* the arguments of transformAntigravityResponse
  normalized,  \* the response transformAntigravityResponse returned
  inflight,    \* per call in flight: what its transform has still to observe
  written      \* history: the <<key, signature>> pairs the transforms wrote

gatewayVars == <<fetchCall, generated, prepared, backend, normalized>>
transformVars == <<op, context, parsedBody, original, result, observed>>
flightVars == <<inflight, written>>

vars == <<cache, pc, op, context, parsedBody, original, result, observed,
          fetchCall, generated, prepared, backend, normalized,
          inflight, written>>

NoResult == [body |-> WrapEnvelope(Context(Undefined, Undefined), EmptyPayload),
             debugInfo |-> [transformer |-> "none", toolCount |-> 0]]

NoCall ==
  [input |-> [isString |-> TRUE, url |-> ""],
   init |-> [method |-> Undefined, headers |-> NoHeaders, body |-> NoBody],
   accessToken |-> Undefined, projectId |-> Undefined]
NoneGenerated == [requestId |-> Undefined, sessionId |-> Undefined]
NothingPrepared == Prepared(NoCall.input, NoCall.init, FALSE, Undefined, "none")
NoResponse == [status |-> 0, statusText |-> Undefined, headers |-> NoHeaders, text |-> <<>>]
NoBackendCall ==
  [response |-> NoResponse, streaming |-> FALSE, requestedModel |-> Undefined]

Init ==
  /\ cache = EmptyCache
  /\ pc = "idle"
  /\ op = "none"
  /\ context = Context(Undefined, Undefined)
  /\ parsedBody = EmptyPayload
  /\ original = EmptyPayload
  /\ result = NoResult
  /\ observed = None
  /\ fetchCall = NoCall
  /\ generated = NoneGenerated
  /\ prepared = NothingPrepared
  /\ backend = NoBackendCall
  /\ normalized = NoResponse
  /\ inflight = [i \in 1..MaxInFlight |-> None]
  /\ written = {}

\* The positions <<i, j>> of the model-role thinking blocks with text and an
\* authentic signature in a payload.
AuthenticBlocks(payload) ==
  IF payload.contents = None THEN {}
  ELSE LET cs == payload.contents[1]
       IN {ij \in (1..Len(cs)) \X (1..MaxParts + 1) :
             /\ ij[2] <= Len(cs[ij[1]].parts)
             /\ cs[ij[1]].role = "model"
             /\ cs[ij[1]].parts[ij[2]].thought = TRUE
             /\ cs[ij[1]].parts[ij[2]].text # Undefined
             /\ IsAuthentic(cs[ij[1]].parts[ij[2]].thoughtSignature)}

LastObserved(obs, sessionId, payload) ==
  LET S == AuthenticBlocks(payload)
  IN IF S = {} THEN obs
     ELSE LET ij == CHOOSE x \in S : \A y \in S :
                      y[1] < x[1] \/ (y[1] = x[1] /\ y[2] <= x[2])
              part == payload.contents[1][ij[1]].parts[ij[2]]
          IN Some([sessionId |-> sessionId, text |-> part.text,
                   signature |-> part.thoughtSignature])

TransformGemini(calls, track) ==
  /\ pc = "idle"
  /\ \E call \in calls :
       LET r == transformGeminiRequest(call.context, call.parsedBody, cache)
       IN /\ context' = call.context
          /\ parsedBody' = call.parsedBody
          /\ original' = r.parsedBody
          /\ result' = [body |-> r.body, debugInfo |-> r.debugInfo]
          /\ observed' = IF track
                         THEN LastObserved(observed, call.context.sessionId, call.parsedBody)
                         ELSE observed
  /\ pc' = "done"
  /\ op' = "gemini"
  /\ UNCHANGED <<cache, gatewayVars, flightVars>>

TransformClaude(calls) ==
  /\ pc = "idle"
  /\ \E call \in calls :
       LET r == transformClaudeRequest(call.context, call.parsedBody, cache)
       IN /\ context' = call.context
          /\ parsedBody' = call.parsedBody
          /\ original' = r.parsedBody
          /\ result' = [body |-> r.body, debugInfo |-> r.debugInfo]
  /\ pc' = "done"
  /\ op' = "claude"
  /\ UNCHANGED <<cache, observed, gatewayVars, flightVars>>

\* Faulty variant: whatever signature is observed is stored.
CacheSignatureUnchecked ==
  /\ pc = "idle"
  /\ \E s \in Sessions, t \in Texts,
        g \in InputSignatures \cup {OTHER_VALID_SIGNATURE} :
       /\ <<s, t>> \in DOMAIN cache \/ Cardinality(DOMAIN cache) < MaxCacheEntries
       /\ cache' = cacheSignature(cache, s, t, g)
       /\ observed' = IF observed # None /\ observed[1].sessionId = s
                         /\ observed[1].text = t
                      THEN None ELSE observed
  /\ UNCHANGED <<pc, op, context, parsedBody, original, result, gatewayVars, flightVars>>

\* A write to the cache (specification 3: an entry is created or overwritten
\* when a long, non-sentinel signature is observed for a text).
CacheSignature ==
  /\ pc = "idle"
  /\ \E s \in Sessions, t \in Texts,
        g \in InputSignatures \cup {OTHER_VALID_SIGNATURE} :
       /\ IsAuthentic(g)
       /\ <<s, t>> \in DOMAIN cache \/ Cardinality(DOMAIN cache) < MaxCacheEntries
       /\ cache' = cacheSignature(cache, s, t, g)
       /\ observed' = IF observed # None /\ observed[1].sessionId = s
                         /\ observed[1].text = t
                      THEN None ELSE observed
  /\ UNCHANGED <<pc, op, context, parsedBody, original, result, gatewayVars, flightVars>>

\* The caller takes the result; the next call starts from fresh arguments.
Return ==
  /\ pc = "done"
  /\ pc' = "idle"
  /\ op' = "none"
  /\ context' = Context(Undefined, Undefined)
  /\ parsedBody' = EmptyPayload
  /\ original' = EmptyPayload
  /\ result' = NoResult
  /\ UNCHANGED <<cache, observed, gatewayVars, flightVars>>

Next ==
  \/ TransformGemini(GeminiCalls, FALSE)
  \/ TransformClaude(ClaudeCalls)
  \/ CacheSignature
  \/ Return

Spec == Init /\ [][Next]_vars

\* The same machine on one-part turns, with the history variable recorded.
NextRoundTrip ==
  \/ TransformGemini(OnePartCalls(GeminiContentCalls), TRUE)
  \/ TransformClaude(OnePartCalls(ClaudeContentCalls))
  \/ CacheSignature
  \/ Return

SpecRoundTrip == Init /\ [][NextRoundTrip]_vars

\* prepareAntigravityRequest on one call; generateRequestId and getSessionId
\* give the ids.
PrepareRequest ==
  /\ pc = "idle"
  /\ \E c \in GatewayCalls, requestId \in RequestIds, sessionId \in Sessions :
       /\ fetchCall' = c
       /\ generated' = [requestId |-> requestId, sessionId |-> sessionId]
       /\ prepared' = prepareAntigravityRequest(c, requestId, sessionId, cache)
  /\ pc' = "prepared"
  /\ UNCHANGED <<cache, transformVars, backend, normalized, flightVars>>

\* transformAntigravityResponse on one backend response
TransformResponse ==
  /\ pc = "idle"
  /\ \E b \in BackendCalls :
       /\ backend' = b
       /\ normalized' = transformAntigravityResponse(b.response, b.streaming,
                                                     b.requestedModel)
  /\ pc' = "normalized"
  /\ UNCHANGED <<cache, transformVars, fetchCall, generated, prepared, flightVars>>

\* The caller takes what the gateway returned.
Deliver ==
  /\ pc \in {"prepared", "normalized"}
  /\ pc' = "idle"
  /\ fetchCall' = NoCall
  /\ generated' = NoneGenerated
  /\ prepared' = NothingPrepared
  /\ backend' = NoBackendCall
  /\ normalized' = NoResponse
  /\ UNCHANGED <<cache, transformVars, flightVars>>

NextRequest ==
  \/ PrepareRequest
  \/ CacheSignature
  \/ Deliver

SpecRequest == Init /\ [][NextRequest]_vars

NextResponse ==
  \/ TransformResponse
  \/ Deliver

SpecResponse == Init /\ [][NextResponse]_vars

\* Calls in flight at once (specification 5: each call is processed
\* independently, the cache is the only shared resource).  A call is the
\* session it belongs to and the thinking blocks its transform meets, in
\* order; a transform touches the cache once per block.
Block(text, signature) == [text |-> text, signature |-> signature]

FlightCalls ==
  {[sessionId |-> "s1", todo |-> <<Block("t1", OTHER_VALID_SIGNATURE),
                                   Block("t2", VALID_CLAUDE_SIGNATURE)>>],
   [sessionId |-> "s1", todo |-> <<Block("t2", OTHER_VALID_SIGNATURE),
                                   Block("t1", VALID_CLAUDE_SIGNATURE)>>],
   [sessionId |-> "s1", todo |-> <<Block("t1", SHORT_SIGNATURE)>>],
   [sessionId |-> "s2", todo |-> <<Block("t1", VALID_CLAUDE_SIGNATURE)>>]}

\* A call enters its transform.
Begin(i) ==
  /\ inflight[i] = None
  /\ \E call \in FlightCalls : inflight' = [inflight EXCEPT ![i] = Some(call)]
  /\ UNCHANGED <<cache, written, pc, transformVars, gatewayVars>>

\* The transform of call i meets its next block: an authentic signature is
\* written under (sessionId, text) (specification 3 and 4.2 rule 8), any
\* other makes the transform read the cache (gemini.ts:94-101).
Observe(i) ==
  /\ inflight[i] # None
  /\ inflight[i][1].todo # <<>>
  /\ LET call == inflight[i][1]
         block == Head(call.todo)
     IN /\ inflight' = [inflight EXCEPT ![i] = Some([call EXCEPT !.todo = Tail(@)])]
        /\ IF IsAuthentic(block.signature)
           THEN /\ cache' = cacheSignature(cache, call.sessionId, block.text,
                                           block.signature)
                /\ written' = written \cup
                                {<<<<call.sessionId, block.text>>, block.signature>>}
           ELSE UNCHANGED <<cache, written>>
  /\ UNCHANGED <<pc, transformVars, gatewayVars>>

\* The transform of call i returns.
Finish(i) ==
  /\ inflight[i] # None
  /\ inflight[i][1].todo = <<>>
  /\ inflight' = [inflight EXCEPT ![i] = None]
  /\ UNCHANGED <<cache, written, pc, transformVars, gatewayVars>>

NextFlights == \E i \in 1..MaxInFlight : Begin(i) \/ Observe(i) \/ Finish(i)

SpecFlights == Init /\ [][NextFlights]_vars

-----------------------------------------------------------------------------
(* Properties *)

Returned(transformer) == pc = "done" /\ op = transformer
HasContents == parsedBody.contents # None
InTurns == parsedBody.contents[1]
OutTurns == result.body.request.contents[1]
ModelTurns == {i \in 1..Len(InTurns) : InTurns[i].role = "model"}

\* "present, longer than 50 characters and not the sentinel", as the claims say it
LongNonSentinel(g) ==
  g # Undefined /\ g # "" /\ g # "skip_thought_signature_validator" /\ Len(g) > 50

IsThinkingBlock(part) == part.thought = TRUE /\ part.functionCall = Undefined

\* C1: the body either transformer returns is an envelope with exactly the
\* fields project, model, userAgent, requestId and request, the first four
\* taken from the context (userAgent fixed to "antigravity"), and its request
\* holds no model field, whatever the payload held.
EnvelopeHoistsModel ==
  pc = "done" =>
    /\ DOMAIN result.body = {"project", "model", "userAgent", "requestId", "request"}
    /\ result.body.project = context.projectId
    /\ result.body.model = context.model
    /\ result.body.userAgent = "antigravity"
    /\ result.body.requestId = context.requestId
    /\ result.body.request.model = Undefined

EnvelopeHoistsModelWitness ==
  /\ Returned("gemini")
  /\ parsedBody.model = "gemini-3-pro-preview"
  /\ result.body.model = "gemini-3-pro-high"
  /\ result.body.request.sessionId = "s1"

\* C2: in the output of transformGeminiRequest every part of a model-role turn
\* that is a thinking block, carries a thoughtSignature or is a functionCall
\* has the bypass sentinel as its thoughtSignature.
GeminiAppliesBypass ==
  Returned("gemini") /\ HasContents =>
    \A i \in 1..Len(OutTurns) : \A j \in 1..Len(OutTurns[i].parts) :
       LET part == OutTurns[i].parts[j]
       IN /\ OutTurns[i].role = "model"
          /\ \/ part.thought = TRUE
             \/ part.thoughtSignature # Undefined
             \/ part.functionCall # Undefined
          => part.thoughtSignature = "skip_thought_signature_validator"

\* C3: transformClaudeRequest under session s maps the parts of every
\* model-role turn, in order, as follows: a thinking block whose signature is
\* present, longer than 50 characters and not the sentinel is output
\* unchanged; any other thinking block with text t is output with the cached
\* signature of (s, t) when the cache holds one, and is left out otherwise;
\* the parts that are not thinking blocks stay where they are.
ClaudeThinkingBlockRule ==
  Returned("claude") /\ HasContents =>
    \A i \in ModelTurns :
       LET s == context.sessionId
           Cached(part) == part.text # Undefined /\ <<s, part.text>> \in DOMAIN cache
           Stays(part) ==
             \/ ~IsThinkingBlock(part)
             \/ LongNonSentinel(part.thoughtSignature)
             \/ Cached(part)
           Outcome(part) ==
             IF IsThinkingBlock(part) /\ ~LongNonSentinel(part.thoughtSignature)
             THEN [part EXCEPT !.thoughtSignature = cache[<<s, part.text>>]]
             ELSE part
           stay == SelectSeq(InTurns[i].parts, Stays)
       IN OutTurns[i].parts = [k \in 1..Len(stay) |-> Outcome(stay[k])]

\* a turn of two thinking blocks: the first restored from the cache, the
\* second left out
ClaudeThinkingBlockRuleWitness ==
  /\ Returned("claude") /\ HasContents
  /\ InTurns[2].role = "model"
  /\ Len(InTurns[2].parts) = 2
  /\ InTurns[2].parts[1] = Part("t1", TRUE, SHORT_SIGNATURE, Undefined)
  /\ InTurns[2].parts[2] = Part("t2", TRUE, THOUGHT_SIGNATURE_BYPASS, Undefined)
  /\ OutTurns[2].parts = <<Part("t1", TRUE, OTHER_VALID_SIGNATURE, Undefined)>>

\* C4: every thinking block of a model-role turn in the output of
\* transformClaudeRequest carries a signature that is present, longer than the
\* threshold and not the sentinel.
ClaudeForwardsOnlyAuthentic ==
  Returned("claude") /\ HasContents =>
    \A i \in 1..Len(OutTurns) : \A j \in 1..Len(OutTurns[i].parts) :
       OutTurns[i].role = "model" /\ OutTurns[i].parts[j].thought = TRUE
         => LongNonSentinel(OutTurns[i].parts[j].thoughtSignature)

\* a block that came in with the sentinel goes out with a cached signature
ClaudeForwardsOnlyAuthenticWitness ==
  /\ Returned("claude") /\ HasContents
  /\ InTurns[2].role = "model"
  /\ InTurns[2].parts = <<Part("t2", TRUE, THOUGHT_SIGNATURE_BYPASS, Undefined)>>
  /\ Len(OutTurns[2].parts) = 1
  /\ OutTurns[2].parts[1].thoughtSignature = VALID_CLAUDE_SIGNATURE

\* C5: once transformGeminiRequest under session s has processed a model-role
\* thinking block with text t and an authentic signature g, and no write to
\* key (s, t) has happened since, transformClaudeRequest under s outputs every
\* thinking block with text t whose signature is the sentinel, short or
\* absent with signature g.
RoundTripRestoresSignature ==
  Returned("claude") /\ HasContents /\ observed # None
    /\ context.sessionId = observed[1].sessionId =>
    \A i \in ModelTurns : \A j \in 1..Len(InTurns[i].parts) :
       LET part == InTurns[i].parts[j]
       IN /\ IsThinkingBlock(part)
          /\ part.text = observed[1].text
          /\ ~LongNonSentinel(part.thoughtSignature)
          => \E k \in 1..Len(OutTurns[i].parts) :
                OutTurns[i].parts[k] =
                  [part EXCEPT !.thoughtSignature = observed[1].signature]

\* C6: when transformGeminiRequest under session s returns, the cache maps
\* (s, t) to g for every model-role part of the payload with text t and a
\* signature g that is longer than the threshold and not the sentinel.
GeminiCachesAuthentic ==
  Returned("gemini") /\ HasContents =>
    \A i \in ModelTurns : \A j \in 1..Len(InTurns[i].parts) :
       LET part == InTurns[i].parts[j]
           key == <<context.sessionId, part.text>>
       IN part.text # Undefined /\ LongNonSentinel(part.thoughtSignature)
          => key \in DOMAIN cache /\ cache[key] = part.thoughtSignature

\* C7: both transformers output every turn whose role is not the model role
\* exactly as it came in: the same parts in the same order with the same
\* fields.
NonModelTurnsIdentical ==
  pc = "done" /\ HasContents =>
    /\ Len(OutTurns) = Len(InTurns)
    /\ \A i \in 1..Len(InTurns) :
          InTurns[i].role # "model" => OutTurns[i] = InTurns[i]

\* C8: transformClaudeRequest outputs every functionCall part of a model-role
\* turn, in order and with its functionCall and thoughtSignature as they came
\* in, whatever the signature is.
ClaudeKeepsFunctionCalls ==
  Returned("claude") /\ HasContents =>
    \A i \in ModelTurns :
       LET IsCall(part) == part.functionCall # Undefined
       IN SelectSeq(OutTurns[i].parts, IsCall) = SelectSeq(InTurns[i].parts, IsCall)

\* a thinking block is left out next to a functionCall with a short signature
ClaudeKeepsFunctionCallsWitness ==
  /\ Returned("claude") /\ HasContents
  /\ InTurns[2].role = "model"
  /\ InTurns[2].parts = <<Part("t1", TRUE, SHORT_SIGNATURE, Undefined),
                          Part(Undefined, FALSE, SHORT_SIGNATURE, "google_search")>>
  /\ OutTurns[2].parts = <<Part(Undefined, FALSE, SHORT_SIGNATURE, "google_search")>>

\* C9: when a transformer returns, the payload object the caller passed in,
\* nested objects included, equals what it was before the call.
CallerPayloadUnchanged ==
  pc = "done" => original = parsedBody

\* C10: for a flash-family target model and a tools array that requests search
\* (a native googleSearch or google_search tool, or a function declaration
\* named google_search), the output tools is exactly [{googleSearch: {}}].
FlashSearchIsExclusive ==
  LET ts == parsedBody.tools[1]
      Requests(tool) ==
        \/ tool.google_search # Undefined
        \/ tool.googleSearch # Undefined
        \/ /\ tool.functionDeclarations # None
           /\ "google_search" \in
                {tool.functionDeclarations[1][j] :
                   j \in 1..Len(tool.functionDeclarations[1])}
  IN /\ Returned("gemini")
     /\ context.model \in {"gemini-2.5-flash", "gemini-2.5-flash-lite"}
     /\ parsedBody.tools # None
     /\ \E i \in 1..Len(ts) : Requests(ts[i])
     => result.body.request.tools =
          Some(<<[google_search |-> Undefined, googleSearch |-> "{}",
                  urlContext |-> Undefined, functionDeclarations |-> None]>>)

\* flash-lite, a function declaration beside a google_search declaration
FlashSearchIsExclusiveWitness ==
  /\ Returned("gemini")
  /\ context.model = "gemini-2.5-flash-lite"
  /\ parsedBody.tools =
       Some(<<Tool(Undefined, Undefined, Undefined, Some(<<"read_file">>)),
              Tool(Undefined, Undefined, Undefined, Some(<<"google_search">>))>>)
  /\ Len(result.body.request.tools[1]) = 1
  /\ result.debugInfo.toolCount = 1

-----------------------------------------------------------------------------
(* Properties of the Response Normalizer *)

Normalized == pc = "normalized"
BackendText == backend.response.text
BackendContentType ==
  IF "content-type" \in DOMAIN backend.response.headers
  THEN backend.response.headers["content-type"] ELSE ""
IsEventStream == BackendContentType = "text/event-stream"
IsStructuredData ==
  BackendContentType \in {"application/json", "application/json; charset=utf-8"}
IsOkStatus == backend.response.status \in 200..299

\* a data: line whose JSON carries a response field
CarriesResponse(line) ==
  /\ line.head \in {"data:", "data: "}
  /\ line.json # None
  /\ line.json[1].response # None

\* the lines of the returned body are those of the backend's, each data: line
\* that carries a response field replaced by data: and that field's value
LinesUnwrapped ==
  /\ Len(normalized.text) = Len(BackendText)
  /\ \A i \in 1..Len(BackendText) :
        normalized.text[i] =
          IF CarriesResponse(BackendText[i])
          THEN [head |-> "data: ", json |-> BackendText[i].json[1].response, rest |-> ""]
          ELSE BackendText[i]
  /\ \A i \in 1..Len(normalized.text) : ~CarriesResponse(normalized.text[i])

\* C11 as stated: for every response processed with streaming = true and an
\* event-stream content type, each data: line whose JSON carries a response
\* field comes out as data: and that field's value, every other line comes
\* out verbatim and in place, and no line of the returned body is still
\* wrapped in the {response: ...} envelope.
StreamingUnwrapsEveryResponse ==
  Normalized /\ backend.streaming /\ IsEventStream => LinesUnwrapped

\* C11, amended: the same for the responses whose status is a success status.
StreamingUnwrapsOkResponse ==
  Normalized /\ backend.streaming /\ IsEventStream /\ IsOkStatus => LinesUnwrapped

\* a successful stream of a wrapped event and the [DONE] line
StreamingUnwrapsOkResponseWitness ==
  /\ Normalized /\ backend.streaming /\ IsEventStream /\ IsOkStatus
  /\ Len(BackendText) = 2
  /\ CarriesResponse(BackendText[1])
  /\ BackendText[1].head = "data:"
  /\ BackendText[2].rest = "[DONE]"
  /\ normalized.text[1].head = "data: "
  /\ normalized.text[1].json[1].text = "chunk"
  /\ normalized.text[2] = BackendText[2]

\* the backend body as one JSON object, None when it is not one
BackendJson ==
  IF Len(BackendText) = 1 /\ BackendText[1].head = "" /\ BackendText[1].json # None
  THEN BackendText[1].json ELSE None

\* C12: for a non-streaming structured-data response the returned body is the
\* value of the payload's response field if it has one, else the
\* preview-access-patched error body if the rewrite applied, else the raw
\* text; the status and status text are the backend's.
NonStreamingBodyChoice ==
  Normalized /\ ~backend.streaming /\ IsStructuredData =>
    LET patched == IF BackendJson = None THEN None
                   ELSE rewriteGeminiPreviewAccessError(
                          BackendJson[1], backend.response.status, backend.requestedModel)
    IN /\ normalized.status = backend.response.status
       /\ normalized.statusText = backend.response.statusText
       /\ normalized.text =
            IF BackendJson # None /\ BackendJson[1].response # None
            THEN <<[head |-> "", json |-> BackendJson[1].response, rest |-> ""]>>
            ELSE IF patched # None
            THEN <<[head |-> "", json |-> patched, rest |-> ""]>>
            ELSE BackendText

\* a 404 preview-access error comes back patched, still with status 404
NonStreamingBodyChoiceWitness ==
  /\ Normalized /\ ~backend.streaming /\ IsStructuredData
  /\ backend.response.status = 404
  /\ BackendJson # None
  /\ BackendJson[1].response = None
  /\ BackendJson[1].error[1].message = "Model requires preview access"
  /\ normalized.status = 404
  /\ normalized.text[1].json[1].error[1].message =
       "Preview access is required for gemini-3-pro-preview"

\* the usage metadata found in the backend payload: on the streaming path that
\* of the last data: line whose response holds one, otherwise that of the
\* response field of the body
FoundUsage ==
  IF backend.streaming /\ IsEventStream
  THEN LET holders == {i \in 1..Len(BackendText) :
                         /\ CarriesResponse(BackendText[i])
                         /\ BackendText[i].json[1].response[1].usageMetadata # None}
       IN IF holders = {} THEN None
          ELSE BackendText[CHOOSE i \in holders : \A j \in holders : j <= i]
                 .json[1].response[1].usageMetadata
  ELSE IF (IsStructuredData \/ IsEventStream)
          /\ BackendJson # None /\ BackendJson[1].response # None
  THEN BackendJson[1].response[1].usageMetadata
  ELSE None

TokenCountHeaders ==
  [promptTokenCount |-> "x-gemini-prompt-token-count",
   candidatesTokenCount |-> "x-gemini-candidates-token-count",
   cachedContentTokenCount |-> "x-gemini-cached-content-token-count",
   totalTokenCount |-> "x-gemini-total-token-count"]

\* every token count of the found usage metadata is a header of the result
CountsAreHeaders ==
  \A count \in DOMAIN TokenCountHeaders :
     FoundUsage[1][count] # None =>
       /\ TokenCountHeaders[count] \in DOMAIN normalized.headers
       /\ normalized.headers[TokenCountHeaders[count]] = ToString(FoundUsage[1][count][1])

\* C13 as stated: whenever usage metadata is found in the backend payload, on
\* the streaming or the non-streaming path, every token count it contains is
\* set on the returned response as its x-gemini-*-token-count header.
UsageCountsBecomeHeaders ==
  Normalized /\ FoundUsage # None => CountsAreHeaders

\* C13, amended: the same whenever the usage metadata found contains a
\* cachedContentTokenCount.
CachedUsageCountsBecomeHeaders ==
  Normalized /\ FoundUsage # None /\ FoundUsage[1].cachedContentTokenCount # None
    => CountsAreHeaders

\* a stream whose final event holds the four counts
CachedUsageCountsBecomeHeadersWitness ==
  /\ Normalized /\ backend.streaming /\ IsEventStream
  /\ Len(BackendText) = 2
  /\ ~CarriesResponse(BackendText[1])
  /\ FoundUsage # None
  /\ FoundUsage[1].cachedContentTokenCount = <<40>>
  /\ normalized.headers["x-gemini-cached-content-token-count"] = "40"
  /\ normalized.headers["x-gemini-total-token-count"] = "55"
  /\ normalized.headers["x-gemini-prompt-token-count"] = "10"
  /\ normalized.headers["x-gemini-candidates-token-count"] = "5"

\* the retryDelay of the first RetryInfo detail of the backend's error body,
\* Undefined when there is none
BackendRetryDelay ==
  IF BackendJson = None \/ BackendJson[1].error = None
     \/ BackendJson[1].error[1].details = None
  THEN Undefined
  ELSE LET ds == BackendJson[1].error[1].details[1]
           infos == {i \in 1..Len(ds) :
                       ds[i].type = "type.googleapis.com/google.rpc.RetryInfo"}
       IN IF infos = {} THEN Undefined
          ELSE ds[CHOOSE i \in infos : \A j \in infos : i <= j].retryDelay

\* "<decimal>s": digits with at most one dot, then s
IsDecimalSeconds(s) ==
  /\ Len(s) >= 2
  /\ SubSeq(s, Len(s), Len(s)) = "s"
  /\ \A i \in 1..(Len(s) - 1) : SubSeq(s, i, i) \in Digits \cup {"."}
  /\ Cardinality({i \in 1..(Len(s) - 1) : SubSeq(s, i, i) = "."}) <= 1
  /\ \E i \in 1..(Len(s) - 1) : SubSeq(s, i, i) \in Digits

CeilDiv(a, b) == (a + b - 1) \div b

\* C14: for an error-status response whose body has a RetryInfo detail with
\* retryDelay "<decimal>s" of positive value d, the returned response carries
\* Retry-After = ceil(d) and retry-after-ms = ceil(d * 1000) and still the
\* backend's body and status; a body that cannot be parsed leaves the response
\* without these headers.
RetryAfterIsCeiling ==
  Normalized /\ (IsStructuredData \/ IsEventStream) /\ ~IsOkStatus =>
    /\ BackendJson = None =>
         /\ "retry-after" \notin DOMAIN normalized.headers
         /\ "retry-after-ms" \notin DOMAIN normalized.headers
         /\ normalized.status = backend.response.status
    /\ BackendRetryDelay # Undefined /\ IsDecimalSeconds(BackendRetryDelay) =>
         LET d == parseFloat(SubSeq(BackendRetryDelay, 1, Len(BackendRetryDelay) - 1))
         IN d.n > 0 =>
              /\ "retry-after" \in DOMAIN normalized.headers
              /\ normalized.headers["retry-after"] = ToString(CeilDiv(d.n, Pow10(d.k)))
              /\ normalized.headers["retry-after-ms"] =
                   ToString(CeilDiv(d.n * 1000, Pow10(d.k)))
              /\ normalized.text = BackendText
              /\ normalized.status = backend.response.status

-----------------------------------------------------------------------------
(* Properties of the Gateway *)

PreparedReturned == pc = "prepared"

\* the host a URL targets: what stands between "://" and the next "/", "?" or
\* "#"
HostOf(url) ==
  LET start == IndexOf(url, "://", 1) + 3
      stops == {j \in start..Len(url) : SubSeq(url, j, j) \in {"/", "?", "#"}}
      end == IF stops = {} THEN Len(url)
             ELSE (CHOOSE j \in stops : \A k \in stops : j <= k) - 1
  IN IF IndexOf(url, "://", 1) = 0 \/ end < start THEN ""
     ELSE SubSeq(url, start, end)

TargetsApiHost == HostOf(fetchCall.input.url) = API_HOST

\* the headers the caller supplied, as a Headers object holds them
CallersHeaders == NewHeaders(fetchCall.init.headers)

\* C15: a call whose URL does not target the public API host comes back with
\* the same URL and body and the caller's headers, none added, removed or
\* changed, with streaming = false and no requestedModel.
OtherHostsPassThrough ==
  PreparedReturned /\ ~TargetsApiHost =>
    /\ prepared.request = fetchCall.input
    /\ prepared.init.body = fetchCall.init.body
    /\ prepared.init.headers = CallersHeaders
    /\ prepared.streaming = FALSE
    /\ prepared.requestedModel = Undefined

HasModelSegment == MatchModelAction(fetchCall.input.url) # None

\* C16 as stated: a call to the public API host whose URL has no
\* /models/{model}:{action} segment comes back unchanged: same URL, same body,
\* the headers the caller supplied, streaming = false.
UnmatchedPassesThroughUnchanged ==
  PreparedReturned /\ TargetsApiHost /\ ~HasModelSegment =>
    /\ prepared.request = fetchCall.input
    /\ prepared.init.body = fetchCall.init.body
    /\ prepared.init.headers = CallersHeaders
    /\ prepared.streaming = FALSE

\* C16, amended: such a call comes back with the same URL and body and
\* streaming = false; when its URL is given as a string its headers are the
\* caller's with Authorization set to the bearer token and x-api-key removed,
\* otherwise they are the caller's.
UnmatchedPassesThroughAuthorized ==
  PreparedReturned /\ TargetsApiHost /\ ~HasModelSegment =>
    /\ prepared.request = fetchCall.input
    /\ prepared.init.body = fetchCall.init.body
    /\ prepared.streaming = FALSE
    /\ IF fetchCall.input.isString
       THEN /\ DOMAIN prepared.init.headers =
                 (DOMAIN CallersHeaders \cup {"authorization"}) \ {"x-api-key"}
            /\ prepared.init.headers["authorization"] =
                 "Bearer " \o fetchCall.accessToken
            /\ \A n \in DOMAIN prepared.init.headers \ {"authorization"} :
                 prepared.init.headers[n] = CallersHeaders[n]
       ELSE prepared.init.headers = CallersHeaders

\* a model listing sent with an API key and a stale bearer token
UnmatchedPassesThroughAuthorizedWitness ==
  /\ PreparedReturned /\ TargetsApiHost /\ ~HasModelSegment
  /\ fetchCall.input.isString
  /\ "x-api-key" \in DOMAIN fetchCall.init.headers
  /\ fetchCall.init.headers["Authorization"] = "Bearer stale"
  /\ fetchCall.init.body # NoBody
  /\ prepared.init.headers["authorization"] = "Bearer access-token"
  /\ prepared.init.headers["user-agent"] = "opencode"
  /\ "x-api-key" \notin DOMAIN prepared.init.headers

\* the call was rewritten for the internal endpoint
Rewritten == PreparedReturned /\ prepared.request # fetchCall.input

\* the action of the caller's URL: the word after its last colon
ActionOf(url) ==
  LET colons == {j \in 1..Len(url) : SubSeq(url, j, j) = ":"}
  IN WordRun(url, (CHOOSE j \in colons : \A k \in colons : k <= j) + 1)

CallersAction == ActionOf(fetchCall.input.url)

\* the URL of the internal endpoint for the caller's action
InternalUrl ==
  CODE_ASSIST_ENDPOINT \o "/v1internal:" \o CallersAction
    \o (IF CallersAction = "streamGenerateContent" THEN "?alt=sse" ELSE "")

\* the body is a non-empty string that is not the JSON of an object, or the
\* payload holds a null turn and goes to the Gemini transformer, which throws
\* on it
BodyFails ==
  LET body == fetchCall.init.body
  IN /\ body.isString /\ body.text # ""
     /\ \/ body.json = None
        \/ /\ "contents" \in DOMAIN body.json[1]
           /\ body.json[1].contents # None
           /\ \E i \in 1..Len(body.json[1].contents[1]) :
                body.json[1].contents[1][i] = NullTurn
           /\ ~Includes(fetchCall.input.url, "claude")

\* C17: when parsing or transforming the body fails, the call is still
\* returned, its body is the caller's original body, and the URL and header
\* rewriting (internal endpoint, Authorization, fixed client headers,
\* streaming flag) is applied all the same.
FailureKeepsCallersBody ==
  PreparedReturned /\ fetchCall.input.isString /\ TargetsApiHost /\ HasModelSegment
    /\ BodyFails =>
      /\ prepared.init.body = fetchCall.init.body
      /\ prepared.request = [isString |-> TRUE, url |-> InternalUrl]
      /\ prepared.streaming = (CallersAction = "streamGenerateContent")
      /\ prepared.init.headers["authorization"] = "Bearer " \o fetchCall.accessToken
      /\ \A n \in DOMAIN CODE_ASSIST_HEADERS :
           HeadersGet(prepared.init.headers, n) = CODE_ASSIST_HEADERS[n]

\* a streaming call whose body is not JSON, and one whose payload makes the
\* Gemini transformer throw
FailureKeepsCallersBodyWitness ==
  /\ PreparedReturned /\ Rewritten /\ BodyFails
  /\ \/ /\ fetchCall.init.body = TextBody("not json")
        /\ prepared.streaming
        /\ prepared.init.body = TextBody("not json")
     \/ /\ fetchCall.init.body.json # None
        /\ prepared.init.body = fetchCall.init.body
        /\ prepared.requestedModel = "gemini-2.5-flash-image"

CallersJson == fetchCall.init.body.json

\* the body is already enveloped: a string project field and a request field
Enveloped ==
  /\ fetchCall.init.body.isString /\ CallersJson # None
  /\ "project" \in DOMAIN CallersJson[1] /\ "request" \in DOMAIN CallersJson[1]
  /\ CallersJson[1].project # Undefined

\* the model the caller's URL names: what stands between /models/ and the colon
CallersModel ==
  LET url == fetchCall.input.url
      start == IndexOf(url, "/models/", 1) + Len("/models/")
  IN SubSeq(url, start, IndexOf(url, ":", start) - 1)

\* C19: for an already enveloped body neither transformer runs, and the
\* outbound body is the caller's envelope with only model (the resolved
\* model), userAgent ("antigravity"), requestId (the generated one) and
\* request.sessionId changed; project, every other field of the envelope and
\* of request, and the thinking-block signatures are as the caller sent them.
EnvelopeOnlyRefreshed ==
  Rewritten /\ Enveloped =>
    /\ prepared.transformer = "none"
    /\ prepared.init.body.isString /\ prepared.init.body.json # None
    /\ LET sent == CallersJson[1]
           out == prepared.init.body.json[1]
       IN /\ DOMAIN out = DOMAIN sent
          /\ out.model = resolveModelName(CallersModel)
          /\ out.userAgent = "antigravity"
          /\ out.requestId = generated.requestId
          /\ out.request.sessionId = generated.sessionId
          /\ out.project = sent.project
          /\ \A f \in DOMAIN sent \ {"model", "userAgent", "requestId", "request"} :
               out[f] = sent[f]
          /\ DOMAIN out.request = DOMAIN sent.request
          /\ \A f \in DOMAIN sent.request \ {"sessionId"} :
               out.request[f] = sent.request[f]

\* an envelope whose thinking block has a short signature, sent when the cache
\* holds a signature for that very block
EnvelopeOnlyRefreshedWitness ==
  /\ Rewritten /\ Enveloped
  /\ Truthy(getCachedSignature(cache, generated.sessionId, "t1"))
  /\ CallersJson[1].request.contents[1][2].parts[1].thoughtSignature = SHORT_SIGNATURE
  /\ CallersJson[1].model = Undefined
  /\ CallersJson[1].request.sessionId = "caller-session"
  /\ LET out == prepared.init.body.json[1]
     IN /\ out.request.contents[1][2].parts[1].thoughtSignature = SHORT_SIGNATURE
        /\ out.project = "caller-project"
        /\ out.model = "gemini-3-pro-high"
        /\ out.requestId = "req-1"
        /\ out.request.sessionId = generated.sessionId

\* the Claude-proxy family: the models the caller-facing gemini-claude-* ids
\* stand for
ClaudeProxyModels ==
  {"claude-sonnet-4-5", "claude-sonnet-4-5-thinking", "claude-opus-4-5-thinking"}

\* the body is the JSON of an object that is not enveloped and that the
\* transformers accept
PlainPayload ==
  /\ fetchCall.init.body.isString /\ CallersJson # None
  /\ ~Enveloped
  /\ ~BodyFails

\* C20: a non-enveloped body goes through exactly one transformer, picked by
\* the resolved model name: the Claude-Proxy Transformer for the Claude-proxy
\* family, the Gemini-Family Transformer otherwise; every gemini-claude-* id
\* goes to the Claude-Proxy Transformer; requestedModel is the name the URL
\* had.
DispatchByResolvedModel ==
  Rewritten /\ PlainPayload =>
    LET contextOfCall == [model |-> resolveModelName(CallersModel),
                          projectId |-> fetchCall.projectId,
                          streaming |-> prepared.streaming,
                          requestId |-> generated.requestId,
                          sessionId |-> generated.sessionId]
    IN /\ prepared.transformer =
            IF resolveModelName(CallersModel) \in ClaudeProxyModels
            THEN "claude" ELSE "gemini"
       /\ StartsWith(CallersModel, "gemini-claude-") => prepared.transformer = "claude"
       /\ prepared.init.body =
            JsonBody(IF prepared.transformer = "claude"
                     THEN transformClaudeRequest(contextOfCall, CallersJson[1], cache).body
                     ELSE transformGeminiRequest(contextOfCall, CallersJson[1], cache).body)
       /\ prepared.requestedModel = CallersModel

\* a thinking model of the Claude-proxy family, asked for under its
\* gemini-claude id
DispatchByResolvedModelWitness ==
  /\ Rewritten /\ PlainPayload
  /\ CallersModel = "gemini-claude-opus-4-5-thinking"
  /\ CallersJson[1].contents # None
  /\ prepared.transformer = "claude"
  /\ prepared.requestedModel = "gemini-claude-opus-4-5-thinking"
  /\ prepared.init.body.json[1].model = "claude-opus-4-5-thinking"
  /\ prepared.streaming

-----------------------------------------------------------------------------
(* Properties of model resolution *)

\* the alias table and the fallback table, as the repository lists them
AliasTable ==
  ("gemini-2.5-computer-use-preview-10-2025" :> "rev19-uic3-1p")
  @@ ("gemini-3-pro-image-preview" :> "gemini-3-pro-image")
  @@ ("gemini-3-pro-preview" :> "gemini-3-pro-high")
  @@ ("gemini-claude-sonnet-4-5" :> "claude-sonnet-4-5")
  @@ ("gemini-claude-sonnet-4-5-thinking" :> "claude-sonnet-4-5-thinking")
  @@ ("gemini-claude-opus-4-5-thinking" :> "claude-opus-4-5-thinking")

FallbackTable == "gemini-2.5-flash-image" :> "gemini-2.5-flash"

\* one lookup: the alias if there is one, else the fallback if there is one,
\* else the name itself
LookedUpOnce(m) ==
  IF m \in DOMAIN AliasTable THEN AliasTable[m]
  ELSE IF m \in DOMAIN FallbackTable THEN FallbackTable[m]
  ELSE m

\* the model the gateway put into the envelope it sends
SentModel == prepared.init.body.json[1].model

\* C21: the model a call is sent under is the alias-table value of the model
\* its URL names when that model has an alias; otherwise the fallback-table
\* value when it has a fallback; otherwise the name itself.  The fallback
\* table is consulted only when there is no alias, and an alias is not looked
\* up again.
ModelResolvedInOneStep ==
  Rewritten /\ fetchCall.init.body.json # None /\ ~BodyFails =>
    /\ SentModel = LookedUpOnce(CallersModel)
    /\ CallersModel \in DOMAIN AliasTable => SentModel = AliasTable[CallersModel]

\* a model with a fallback and no alias, sent under its fallback
ModelResolvedInOneStepWitness ==
  /\ Rewritten /\ fetchCall.init.body.json # None /\ ~BodyFails
  /\ CallersModel = "gemini-2.5-flash-image"
  /\ SentModel = "gemini-2.5-flash"

-----------------------------------------------------------------------------
(* Properties of cached-content resolution *)

\* the cached-content reference of the caller's payload: the first one present
\* among cached_content, cachedContent, extra_body.cached_content and
\* extra_body.cachedContent
CallersReference ==
  LET extra == parsedBody.extra_body
      first(a, b) == IF a # Undefined THEN a ELSE b
  IN first(parsedBody.cached_content,
       first(parsedBody.cachedContent,
         IF extra = None THEN Undefined
         ELSE first(extra[1].cached_content, extra[1].cachedContent)))

OutRequest == result.body.request

\* none of the legacy locations is left, and an extra_body that held nothing
\* else is gone
LegacyLocationsGone ==
  /\ OutRequest.cached_content = Undefined
  /\ OutRequest.extra_body # None =>
       /\ OutRequest.extra_body[1].cached_content = Undefined
       /\ OutRequest.extra_body[1].cachedContent = Undefined
  /\ parsedBody.extra_body # None /\ parsedBody.extra_body[1].other = Undefined =>
       OutRequest.extra_body = None

\* C22: when the payload carries a cached-content reference in cached_content,
\* cachedContent or under extra_body, the request transformGeminiRequest
\* builds has cachedContent holding that reference (the first present, in
\* that order), none of the legacy locations, and no extra_body if that held
\* nothing else.
CachedContentMadeCanonical ==
  Returned("gemini") /\ CallersReference # Undefined =>
    /\ OutRequest.cachedContent = CallersReference
    /\ LegacyLocationsGone

-----------------------------------------------------------------------------
(* Properties of the Signature Continuity Cache *)

\* the positions <<i, j>> of the parts of the caller's contents
InPositions ==
  IF ~HasContents THEN {}
  ELSE {ij \in (1..Len(InTurns)) \X (1..MaxParts + 1) :
          ij[2] <= Len(InTurns[ij[1]].parts)}

InPart(ij) == InTurns[ij[1]].parts[ij[2]]
OutPart(ij) == OutTurns[ij[1]].parts[ij[2]]

\* the parts the Gemini-family transformer gave a signature from the cache
Restored ==
  {ij \in InPositions :
     OutPart(ij).thoughtSignature # InPart(ij).thoughtSignature}

\* C24: in every reachable state every value stored in the cache is a
\* signature longer than the threshold and different from the sentinel; the
\* sentinel, a short signature or an empty value is never stored, and so a
\* signature a transform takes from the cache is never a non-authentic one.
CacheHoldsOnlyAuthentic ==
  /\ \A k \in DOMAIN cache : LongNonSentinel(cache[k])
  /\ Returned("gemini") =>
       \A ij \in Restored : LongNonSentinel(OutPart(ij).thoughtSignature)

\* a transform that took a signature from the cache for a block that came
\* with a short one
CacheHoldsOnlyAuthenticWitness ==
  /\ Returned("gemini")
  /\ \E ij \in Restored :
       /\ InPart(ij).thoughtSignature = SHORT_SIGNATURE
       /\ <<context.sessionId, InPart(ij).text>> \in DOMAIN cache
       /\ OutPart(ij).thoughtSignature = cache[<<context.sessionId, InPart(ij).text>>]
       /\ Len(OutPart(ij).thoughtSignature) > 50

\* what the cache holds for the session of the call
OwnEntries ==
  [k \in {x \in DOMAIN cache : x[1] = context.sessionId} |-> cache[k]]

\* C25: cache entries are isolated by session and by text.  A signature
\* cached under (s1, t) is never put into a block transformed under another
\* session, nor into a block of s1 with another text: a signature a transform
\* substitutes is the one cached under its own session and the block's own
\* text; and what a transform returns for its session is what it would return
\* if the other sessions had cached nothing.
EntriesIsolatedBySessionAndText ==
  /\ Returned("gemini") =>
       /\ \A ij \in Restored :
            /\ <<context.sessionId, InPart(ij).text>> \in DOMAIN cache
            /\ OutPart(ij).thoughtSignature = cache[<<context.sessionId, InPart(ij).text>>]
       /\ result.body = transformGeminiRequest(context, parsedBody, OwnEntries).body
  /\ Returned("claude") =>
       result.body = transformClaudeRequest(context, parsedBody, OwnEntries).body

\* a block with text t1 and a short signature, transformed under s2 while the
\* cache holds a signature for (s1, t1): it goes out as it came
EntriesIsolatedBySessionAndTextWitness ==
  /\ Returned("gemini")
  /\ context.sessionId = "s2"
  /\ <<"s1", "t1">> \in DOMAIN cache
  /\ \E ij \in InPositions :
       /\ InPart(ij).thought = TRUE
       /\ InPart(ij).text = "t1"
       /\ InPart(ij).thoughtSignature = SHORT_SIGNATURE
       /\ OutPart(ij).thoughtSignature = SHORT_SIGNATURE

\* the signatures some transform wrote for a key
WrittenFor(k) == {w[2] : w \in {x \in written : x[1] = k}}

\* every stored value is one of the signatures written for its key, and no
\* key that was written is missing
CacheIsWhatWasWritten ==
  /\ \A k \in DOMAIN cache : cache[k] \in WrittenFor(k) /\ LongNonSentinel(cache[k])
  /\ \A w \in written : w[1] \in DOMAIN cache

\* a step changes the value of at most one key and drops none
OneKeyPerWrite ==
  /\ DOMAIN cache \subseteq DOMAIN cache'
  /\ Cardinality({k \in DOMAIN cache' :
                    k \notin DOMAIN cache \/ cache'[k] # cache[k]}) <= 1

\* C23: with several calls in flight and their transforms interleaved in any
\* order, the value stored for a key (s, t) is at every point one of the
\* authentic signatures some transform wrote for (s, t), no entry is lost,
\* and a write to one key never changes the value of another key.
CacheNeverCorrupted == [](CacheIsWhatWasWritten) /\ [][OneKeyPerWrite]_vars

\* two calls of session s1 in flight, each half way, each having written the
\* key the other is about to write, with a third entry from another session
CacheNeverCorruptedWitness ==
  /\ inflight[1] # None /\ inflight[2] # None
  /\ inflight[1][1].sessionId = "s1" /\ inflight[2][1].sessionId = "s1"
  /\ Len(inflight[1][1].todo) = 1 /\ Len(inflight[2][1].todo) = 1
  /\ Head(inflight[1][1].todo).text = "t2"
  /\ Head(inflight[2][1].todo).text = "t1"
  /\ getCachedSignature(cache, "s1", "t1") = OTHER_VALID_SIGNATURE
  /\ getCachedSignature(cache, "s1", "t2") = OTHER_VALID_SIGNATURE
  /\ getCachedSignature(cache, "s2", "t1") = VALID_CLAUDE_SIGNATURE

====
